---- MODULE Spec2Model ----
(***************************************************************************)
(* Knowledge-base pipeline: the scrape job engine, the vectorization job   *)
(* engine and the search service, each an HTTP handler over three shared   *)
(* stores (the relational tables scraping_jobs and kb_articles, and the    *)
(* vector collection knowledge_base).                                      *)
(*                                                                         *)
(* Every handler is cut at its suspension points (the awaits that touch a  *)
(* shared store); steps that touch no shared store are merged with the     *)
(* next one that does.  The relational store is taken to be reliable: it   *)
(* accepts every write that satisfies its declared constraints and rejects *)
(* (without raising) the ones that do not.  Outbound HTTP calls (page      *)
(* fetch, embedding, vector store, self-invocation) may fail.              *)
(***************************************************************************)
EXTENDS Integers, Sequences, FiniteSets, TLC

VARIABLES
    scraping_jobs,   \* table scraping_jobs: sequence of rows, id = index
    kb_articles,     \* table kb_articles: set of rows
    now,             \* the wall clock that new Date() reads
    inv,             \* scrape-knowledge-base invocations, in order of arrival
    qdrant,          \* the vector store: the collection knowledge_base
    vinv,            \* vectorize-articles invocations, in order of arrival
    search,          \* the last search-knowledge-base exchange
    vectorization_schedules,   \* rows of the schedule table
    env,             \* which secrets the functions' environment holds
    web              \* the help-center pages as they answer a crawl

vars == <<scraping_jobs, kb_articles, now, inv, qdrant, vinv, search,
          vectorization_schedules, env, web>>

scrapeVars == <<scraping_jobs, inv>>
vecVars == <<qdrant, vinv, vectorization_schedules, env>>

----------------------------------------------------------------------------
(* Bounds of the model *)

MaxInv == 2          \* scrape invocations (requests and continuations) per behaviour
MaxVecInv == 2       \* vectorize invocations (requests and continuations) per behaviour
MaxArticles == 3     \* article rows in the table when vectorization starts

----------------------------------------------------------------------------
(* Values *)

\* An optional field of a JSON body or response is a sequence: <<>> when the
\* field is absent (undefined), <<v>> when it carries v.
Absent == <<>>
Some(v) == <<v>>

\* SQL NULL in a column of positive timestamps or ids
Null == 0

Min(a, b) == IF a < b THEN a ELSE b
Max(a, b) == IF a > b THEN a ELSE b

\* if (resume_job_id): undefined and 0 are falsy
Truthy(opt) == opt # Absent /\ opt[1] # 0

\* Array.prototype.slice(a, b) on a 0-based array held as a 1-based sequence
JsSlice(s, a, b) ==
    LET n == Len(s)
        from == IF a < 0 THEN Max(n + a, 0) ELSE Min(a, n)
        to == IF b < 0 THEN Max(n + b, 0) ELSE Min(b, n)
    IN SubSeq(s, from + 1, to)

----------------------------------------------------------------------------
(* Program constants of the scrape engine *)

DefaultBatchSize == 20
MaxBatchArticles == 50
processingBatchSize == 3
MinContentLen == 100

----------------------------------------------------------------------------
(* The help-center site: the article links of the seed page and of each    *)
(* category sub-page, in order of appearance.                              *)

\* a site of three articles: two linked from the seed page, one of them and a
\* third linked from the one category page
Site3 == [seed |-> <<1, 2>>, cats |-> << <<2, 3>> >>]

\* a site of two articles, the second linked from the category page only
Site2 == [seed |-> <<1>>, cats |-> << <<1, 2>> >>]
Site4 == [seed |-> <<1, 2>>, cats |-> << <<3, 4>> >>]

\* what a page fetch yields: the fetch throws, or a page with or without a
\* title and with an extracted text of some length
Pages == [ok : {TRUE}, title : BOOLEAN, len : {MinContentLen, MinContentLen + 1}]
FetchThrows == [ok |-> FALSE, title |-> FALSE, len |-> 0]
FetchOutcomes == {FetchThrows} \cup Pages
GoodPage == [ok |-> TRUE, title |-> TRUE, len |-> MinContentLen + 1]

\* the batch sizes a request may carry
BatchSizes == {Absent, Some(2)}
SmallBatchSizes == {Absent, Some(1)}
LargeBatchSizes == {Absent, Some(processingBatchSize)}

----------------------------------------------------------------------------
(* discoverArticleUrls *)

\* urls.add(u) for each u of s, on a Set kept in insertion order
RECURSIVE AddAll(_, _)
AddAll(acc, s) ==
    IF s = <<>> THEN acc
    ELSE AddAll(IF \E i \in 1..Len(acc) : acc[i] = Head(s) THEN acc
                ELSE Append(acc, Head(s)), Tail(s))

\* a variant in which a category whose fetch throws ends the crawl empty-handed
RECURSIVE AddCategories_FailureAborts(_, _, _, _)
AddCategories_FailureAborts(acc, cats, c, catOk) ==
    IF c > Len(cats) THEN acc
    ELSE IF ~catOk[c] THEN <<>>
    ELSE AddCategories_FailureAborts(AddAll(acc, cats[c]), cats, c + 1, catOk)

\* the loop over the category pages; a category whose fetch throws is skipped
RECURSIVE AddCategories(_, _, _, _)
AddCategories(acc, cats, c, catOk) ==
    IF c > Len(cats) THEN acc
    ELSE AddCategories(IF catOk[c] THEN AddAll(acc, cats[c]) ELSE acc,
                       cats, c + 1, catOk)

\* seedOk: the fetch of the seed page succeeds (else the outer catch returns
\* []); catOk[c]: the fetch of category page c succeeds
discoverArticleUrls(site, seedOk, catOk) ==
    IF ~seedOk THEN <<>>
    ELSE AddCategories(AddAll(<<>>, site.seed), site.cats, 1, catOk)

\* An href of a page that the article pattern matches is relative, absolute
\* on the help-center host, or of another form (another host or scheme); the
\* article it points to is a number.
HrefForms == {"relative", "absolute", "other"}

\* the loop over urlRegex.exec(html): hrefs starting with '/' are prefixed
\* with the host, hrefs starting with the host are taken as they are, others
\* are dropped; the result is the articles' absolute urls in order
RECURSIVE ArticleLinks(_)
ArticleLinks(hrefs) ==
    IF hrefs = <<>> THEN <<>>
    ELSE (IF Head(hrefs)[1] \in {"relative", "absolute"}
          THEN <<Head(hrefs)[2]>> ELSE <<>>) \o ArticleLinks(Tail(hrefs))

\* the site a crawl sees: the links of the seed page and of each category
\* page.  w.seed, w.cats: the hrefs on the pages; w.seedOk, w.catOk: whether
\* the fetch of the page succeeds
SiteOf(w) ==
    [seed |-> ArticleLinks(w.seed),
     cats |-> [c \in 1..Len(w.cats) |-> ArticleLinks(w.cats[c])]]

Crawl(w) == discoverArticleUrls(SiteOf(w), w.seedOk, w.catOk)

\* no page at all
NoWeb == [seed |-> <<>>, cats |-> <<>>, seedOk |-> TRUE, catOk |-> <<>>]

\* every list a discovery of the site can return
Discoveries(site) ==
    {discoverArticleUrls(site, seedOk, catOk) :
        seedOk \in BOOLEAN, catOk \in [1..Len(site.cats) -> BOOLEAN]}

----------------------------------------------------------------------------
(* The relational store *)

\* error_message is a nullable text: Absent when NULL
NewJobRow(t) ==
    [status |-> "running", total_urls |-> 0, processed_urls |-> 0,
     failed_urls |-> 0, started_at |-> t, completed_at |-> Null,
     error_message |-> Absent]

JobIds == 1..Len(scraping_jobs)

\* extractTitle: the title found on the page of an article
TitleOf(url) == <<"title", url>>

\* kb_articles.url is declared UNIQUE
UrlTaken(rows, url) == \E r \in rows : r.url = url

\* gen_random_uuid(): a fresh opaque id; the model names a row by its url and
\* the number of rows of that url already there
NextArticleId(rows, url) ==
    <<url, Cardinality({r \in rows : r.url = url}) + 1>>

NoId == <<>>

\* .select('id').eq('url', url).maybeSingle(): the row's id, or null when no
\* row matches (or when the query errs, more than one row matching)
SelectIdByUrl(rows, url) ==
    LET hit == {r \in rows : r.url = url}
    IN IF Cardinality(hit) = 1 THEN (CHOOSE r \in hit : TRUE).id ELSE NoId

\* a variant on a table without the UNIQUE constraint on url
InsertArticle_NoConstraint(rows, data) ==
    rows \cup {[id |-> NextArticleId(rows, data.url), url |-> data.url,
                title |-> data.title, content |-> data.content,
                last_scraped_at |-> data.last_scraped_at,
                vector_id |-> NoId, last_indexed_at |-> Null]}

\* .insert(articleData): a row with a fresh id and unset vectorization
\* fields; the store rejects it when the url is taken
InsertArticle(rows, data) ==
    IF UrlTaken(rows, data.url) THEN rows
    ELSE rows \cup {[id |-> NextArticleId(rows, data.url), url |-> data.url,
                     title |-> data.title, content |-> data.content,
                     last_scraped_at |-> data.last_scraped_at,
                     vector_id |-> NoId, last_indexed_at |-> Null]}

\* a variant in which a rewritten article loses its vector fields
UpdateArticle_ClearsVector(rows, id, data) ==
    {IF r.id = id
     THEN [r EXCEPT !.url = data.url, !.title = data.title,
                    !.content = data.content,
                    !.last_scraped_at = data.last_scraped_at,
                    !.vector_id = NoId, !.last_indexed_at = Null]
     ELSE r : r \in rows}

\* .update(articleData).eq('id', id)
UpdateArticle(rows, id, data) ==
    {IF r.id = id
     THEN [r EXCEPT !.url = data.url, !.title = data.title,
                    !.content = data.content,
                    !.last_scraped_at = data.last_scraped_at]
     ELSE r : r \in rows}

\* a variant that never looks for the row: always insert
StoreArticle_AlwaysInsert(rows, existing, data) == InsertArticle(rows, data)

\* the tail of scrapeAndStoreArticle: update the row found, else insert
StoreArticle(rows, existing, data) ==
    IF existing # NoId THEN UpdateArticle(rows, existing, data)
    ELSE InsertArticle(rows, data)

----------------------------------------------------------------------------
(* One scrape invocation: the handler's local variables and its position *)

NoResp == [status |-> 0]

\* what is left of an invocation the platform has ended: the sub-batch it was in
Killed(r) ==
    [pc |-> "killed", resume_job_id |-> r.resume_job_id, batch_size |-> 0,
     job |-> r.job, jobStatus |-> "",
     startIndex |-> 0, discovered |-> <<>>,
     processedCount |-> 0, failedCount |-> 0,
     i |-> 0, items |-> r.items,
     child |-> 0, contIssued |-> r.contIssued,
     resp |-> NoResp]

\* what is left of an invocation once it has responded
Responded(r, resp) ==
    [pc |-> "done", resume_job_id |-> r.resume_job_id, batch_size |-> 0,
     job |-> r.job, jobStatus |-> "",
     startIndex |-> 0, discovered |-> <<>>,
     processedCount |-> 0, failedCount |-> 0,
     i |-> 0, items |-> <<>>,
     child |-> 0, contIssued |-> r.contIssued,
     resp |-> resp]

NewInv(rid, bs, parent) ==
    [pc |-> "received",
     resume_job_id |-> rid,
     batch_size |-> IF bs = Absent THEN DefaultBatchSize ELSE bs[1],
     job |-> 0, jobStatus |-> "",
     startIndex |-> 0, discovered |-> <<>>,
     processedCount |-> 0, failedCount |-> 0,
     i |-> 0, items |-> <<>>,
     child |-> 0, contIssued |-> 0,
     resp |-> NoResp]

InvIds == 1..Len(inv)

\* a variant without the cap on the slice
CurrentBatch_Uncapped(r) ==
    LET endIndex == Min(r.startIndex + r.batch_size, Len(r.discovered))
    IN JsSlice(r.discovered, r.startIndex, endIndex)

\* currentBatch = discoveredUrls.slice(startIndex, endIndex)
CurrentBatch(r) ==
    LET maxBatchArticles == Min(r.batch_size, MaxBatchArticles)
        endIndex == Min(r.startIndex + maxBatchArticles, Len(r.discovered))
    IN JsSlice(r.discovered, r.startIndex, endIndex)

\* batch = currentBatch.slice(i, i + processingBatchSize)
SubBatch(r) == JsSlice(CurrentBatch(r), r.i, r.i + processingBatchSize)

FreshItems(n) ==
    [j \in 1..n |-> [st |-> "todo", existing |-> NoId, content |-> 0,
                     stored |-> FALSE]]

\* the head of the for loop: the next sub-batch, or past the loop
AtLoopHead(r) ==
    IF r.i < Len(CurrentBatch(r))
    THEN [r EXCEPT !.pc = "processing", !.items = FreshItems(Len(SubBatch(r)))]
    ELSE [r EXCEPT !.pc = "finish", !.items = <<>>]

\* extractTitle / extractContent: no title, or a text of at most
\* MinContentLen characters, is an article to skip
Extracted(page) == page.title /\ page.len > MinContentLen

\* a variant that asks for more than the total
IsComplete_Strict(r) == r.processedCount + r.failedCount > Len(r.discovered)

\* isComplete = processedCount + failedCount >= discoveredUrls.length
IsComplete(r) == r.processedCount + r.failedCount >= Len(r.discovered)

\* a variant that reports every url gone through as processed
OkResponse_CountsAttempts(r) ==
    [status |-> 200, success |-> TRUE, jobId |-> r.job,
     processed |-> r.processedCount + r.failedCount, failed |-> r.failedCount,
     total |-> Len(r.discovered),
     isComplete |-> IsComplete(r), nextBatch |-> ~IsComplete(r)]

\* the response of an invocation that went through its slice
OkResponse(r) ==
    [status |-> 200, success |-> TRUE, jobId |-> r.job,
     processed |-> r.processedCount, failed |-> r.failedCount,
     total |-> Len(r.discovered),
     isComplete |-> IsComplete(r), nextBatch |-> ~IsComplete(r)]

ErrorResponse == [status |-> 500]

\* the progress update after each sub-batch
CheckpointRow_SetsRunning(row, r) ==
    [row EXCEPT !.status = "running", !.processed_urls = r.processedCount,
                !.failed_urls = r.failedCount]

\* a variant that writes nothing
CheckpointRow_Skipped(row, r) == row

CheckpointRow(row, r) ==
    [row EXCEPT !.processed_urls = r.processedCount,
                !.failed_urls = r.failedCount]

\* the update that completes the job
CompletedRow(row, r, t) ==
    [row EXCEPT !.status = "completed", !.completed_at = t,
                !.processed_urls = r.processedCount,
                !.failed_urls = r.failedCount]

----------------------------------------------------------------------------
(* Steps of the scrape handler *)

\* a client posts a request
ScrapeRequest(rid, bs) ==
    /\ Len(inv) < MaxInv
    /\ inv' = Append(inv, NewInv(rid, bs, 0))
    /\ UNCHANGED <<scraping_jobs, kb_articles, now>>

\* a variant that answers 500 and leaves a new job row behind
ScrapeResumeNotFound_CreatesJob(k) ==
    /\ inv[k].pc = "received"
    /\ Truthy(inv[k].resume_job_id)
    /\ inv[k].resume_job_id[1] \notin JobIds
    /\ inv' = [inv EXCEPT ![k] = Responded(inv[k], ErrorResponse)]
    /\ now' = now + 1
    /\ scraping_jobs' = Append(scraping_jobs, NewJobRow(now'))
    /\ UNCHANGED kb_articles

\* resume branch, job not found: throw, caught by the handler's catch
ScrapeResumeNotFound(k) ==
    /\ inv[k].pc = "received"
    /\ Truthy(inv[k].resume_job_id)
    /\ inv[k].resume_job_id[1] \notin JobIds
    /\ inv' = [inv EXCEPT ![k] = Responded(inv[k], ErrorResponse)]
    /\ now' = now + 1
    /\ UNCHANGED <<scraping_jobs, kb_articles>>

\* a variant that resumes a job only while no other invocation works on it
ScrapeResume_Exclusive(k, found) ==
    /\ inv[k].pc = "received"
    /\ Truthy(inv[k].resume_job_id)
    /\ inv[k].resume_job_id[1] \in JobIds
    /\ \A h \in InvIds \ {k} :
          ~(inv[h].job = inv[k].resume_job_id[1]
            /\ inv[h].pc \in {"discovering", "processing", "finish", "awaiting"})
    /\ LET job == scraping_jobs[inv[k].resume_job_id[1]]
           r == [inv[k] EXCEPT
                    !.job = inv[k].resume_job_id[1],
                    !.jobStatus = job.status,
                    !.startIndex = job.processed_urls,
                    !.discovered = found,
                    !.processedCount = job.processed_urls,
                    !.failedCount = job.failed_urls]
       IN inv' = [inv EXCEPT ![k] = AtLoopHead(r)]
    /\ now' = now + 1
    /\ UNCHANGED <<scraping_jobs, kb_articles>>

\* resume branch: load the job, re-discover, enter the loop
ScrapeResume(k, found) ==
    /\ inv[k].pc = "received"
    /\ Truthy(inv[k].resume_job_id)
    /\ inv[k].resume_job_id[1] \in JobIds
    /\ LET job == scraping_jobs[inv[k].resume_job_id[1]]
           r == [inv[k] EXCEPT
                    !.job = inv[k].resume_job_id[1],
                    !.jobStatus = job.status,
                    !.startIndex = job.processed_urls,
                    !.discovered = found,
                    !.processedCount = job.processed_urls,
                    !.failedCount = job.failed_urls]
       IN inv' = [inv EXCEPT ![k] = AtLoopHead(r)]
    /\ now' = now + 1
    /\ UNCHANGED <<scraping_jobs, kb_articles>>

\* new-job branch: insert the job row
ScrapeCreateJob(k) ==
    /\ inv[k].pc = "received"
    /\ ~Truthy(inv[k].resume_job_id)
    /\ now' = now + 1
    /\ scraping_jobs' = Append(scraping_jobs, NewJobRow(now'))
    /\ inv' = [inv EXCEPT ![k].pc = "discovering",
                          ![k].job = Len(scraping_jobs) + 1,
                          ![k].jobStatus = "running"]
    /\ UNCHANGED kb_articles

\* new-job branch: discover, store total_urls, enter the loop
ScrapeDiscover(k, found) ==
    /\ inv[k].pc = "discovering"
    /\ LET r == [inv[k] EXCEPT !.discovered = found]
       IN /\ inv' = [inv EXCEPT ![k] = AtLoopHead(r)]
          /\ scraping_jobs' = [scraping_jobs EXCEPT
                                 ![r.job].total_urls = Len(r.discovered)]
    /\ UNCHANGED <<kb_articles, now>>

\* a variant in which a fetch that throws ends the invocation with a 500
ScrapeFetch_FailureAborts(k, j, out) ==
    /\ inv[k].pc = "processing"
    /\ j \in 1..Len(inv[k].items)
    /\ inv[k].items[j].st = "todo"
    /\ LET r == inv[k]
           url == SubBatch(r)[j]
       IN inv' = [inv EXCEPT ![k] =
            IF ~out.ok
            THEN Responded(r, ErrorResponse)
            ELSE IF ~Extracted(out)
            THEN [r EXCEPT !.items[j].st = "done",
                           !.processedCount = r.processedCount + 1]
            ELSE [r EXCEPT !.items[j].st = "checked",
                           !.items[j].existing = SelectIdByUrl(kb_articles, url),
                           !.items[j].content = now]]
    /\ UNCHANGED <<scraping_jobs, kb_articles, now>>

\* scrapeAndStoreArticle up to the existence check, for item j of the
\* sub-batch: the fetch throws (failedCount++), or the page is skipped
\* (return; processedCount++), or the row of this url is looked up
ScrapeFetch(k, j, out) ==
    /\ inv[k].pc = "processing"
    /\ j \in 1..Len(inv[k].items)
    /\ inv[k].items[j].st = "todo"
    /\ LET r == inv[k]
           url == SubBatch(r)[j]
       IN inv' = [inv EXCEPT ![k] =
            IF ~out.ok
            THEN [r EXCEPT !.items[j].st = "failed",
                           !.failedCount = r.failedCount + 1]
            ELSE IF ~Extracted(out)
            THEN [r EXCEPT !.items[j].st = "done",
                           !.processedCount = r.processedCount + 1]
            ELSE [r EXCEPT !.items[j].st = "checked",
                           !.items[j].existing = SelectIdByUrl(kb_articles, url),
                           !.items[j].content = now]]
    /\ UNCHANGED <<scraping_jobs, kb_articles, now>>

\* scrapeAndStoreArticle from the write on; processedCount++
ScrapeWrite(k, j) ==
    /\ inv[k].pc = "processing"
    /\ j \in 1..Len(inv[k].items)
    /\ inv[k].items[j].st = "checked"
    /\ LET r == inv[k]
           it == r.items[j]
           articleData == [url |-> SubBatch(r)[j],
                           title |-> TitleOf(SubBatch(r)[j]),
                           content |-> it.content,
                           last_scraped_at |-> now]
       IN /\ kb_articles' = StoreArticle(kb_articles, it.existing, articleData)
          /\ inv' = [inv EXCEPT ![k].items[j].st = "done",
                                ![k].items[j].stored = TRUE,
                                ![k].processedCount = r.processedCount + 1]
    /\ UNCHANGED <<scraping_jobs, now>>

\* after Promise.all: persist the counts, then the next sub-batch
ScrapeCheckpoint(k) ==
    /\ inv[k].pc = "processing"
    /\ \A j \in 1..Len(inv[k].items) : inv[k].items[j].st \in {"done", "failed"}
    /\ scraping_jobs' = [scraping_jobs EXCEPT
                            ![inv[k].job] = CheckpointRow(@, inv[k])]
    /\ inv' = [inv EXCEPT ![k] =
                 AtLoopHead([inv[k] EXCEPT !.i = inv[k].i + processingBatchSize])]
    /\ UNCHANGED <<kb_articles, now>>

\* past the loop, complete: mark the job completed and respond
ScrapeComplete(k) ==
    /\ inv[k].pc = "finish"
    /\ IsComplete(inv[k])
    /\ scraping_jobs' = [scraping_jobs EXCEPT
                            ![inv[k].job] = CompletedRow(@, inv[k], now)]
    /\ inv' = [inv EXCEPT ![k] = Responded(inv[k], OkResponse(inv[k]))]
    /\ UNCHANGED <<kb_articles, now>>

\* past the loop, not complete: post the continuation to the same endpoint
\* and await the fetch
ScrapeContinue(k) ==
    /\ inv[k].pc = "finish"
    /\ ~IsComplete(inv[k])
    /\ Len(inv) < MaxInv
    /\ inv' = Append([inv EXCEPT ![k].pc = "awaiting",
                                 ![k].child = Len(inv) + 1,
                                 ![k].contIssued = inv[k].contIssued + 1],
                     NewInv(Some(inv[k].job), Some(inv[k].batch_size), k))
    /\ UNCHANGED <<scraping_jobs, kb_articles, now>>

\* the continuation request is never delivered: the fetch throws, the catch
\* logs it, the handler responds
ScrapeContinueLost(k) ==
    /\ inv[k].pc = "finish"
    /\ ~IsComplete(inv[k])
    /\ inv' = [inv EXCEPT ![k] =
                 Responded([inv[k] EXCEPT !.contIssued = inv[k].contIssued + 1],
                           OkResponse(inv[k]))]
    /\ UNCHANGED <<scraping_jobs, kb_articles, now>>

\* the awaited fetch resolves with the continuation's response; respond
ScrapeContinueResolved(k) ==
    /\ inv[k].pc = "awaiting"
    /\ inv[inv[k].child].pc = "done"
    /\ inv' = [inv EXCEPT ![k] = Responded(inv[k], OkResponse(inv[k]))]
    /\ UNCHANGED <<scraping_jobs, kb_articles, now>>

\* the awaited fetch fails (connection dropped, continuation killed) while
\* the continuation has not responded; the catch logs it, the handler responds
ScrapeContinueFailed(k) ==
    /\ inv[k].pc = "awaiting"
    /\ inv[inv[k].child].pc # "done"
    /\ inv' = [inv EXCEPT ![k] = Responded(inv[k], OkResponse(inv[k]))]
    /\ UNCHANGED <<scraping_jobs, kb_articles, now>>

\* the platform's wall-clock limit ends an invocation at a suspension point
ScrapeKill(k) ==
    /\ inv[k].pc \in {"discovering", "processing", "finish", "awaiting"}
    /\ inv' = [inv EXCEPT ![k] = Killed(inv[k])]
    /\ UNCHANGED <<scraping_jobs, kb_articles, now>>

----------------------------------------------------------------------------
(* The vectorization engine *)

VecDefaultBatchSize == 50
vecProcessingBatchSize == 3

VecBatchSizes == {Absent, Some(2)}

\* what one article's embedding call and point upsert may do
VecOutcomes == {"embedding fails", "upsert fails", "ok"}

\* the point of an article: PUT /collections/knowledge_base/points
\* with the payload { title, content, url }
PointOf(a) == [id |-> a.id, title |-> a.title, url |-> a.url, content |-> a.content]

\* a variant in which the store gives every point it receives an id of its own
UpsertPoint_FreshId(points, p) ==
    points \cup {[p EXCEPT !.id = <<p.id[1], p.id[2] + Cardinality(points) + 1>>]}

\* the vector store upserts by point id
UpsertPoint(points, p) == {q \in points : q.id # p.id} \cup {p}

\* a variant that stamps the row and leaves its vector reference unset
IndexedRow_NoVectorId(row, t) == [row EXCEPT !.last_indexed_at = t]

\* .update({ last_indexed_at, vector_id: article.id }).eq('id', article.id)
IndexedRow(row, t) == [row EXCEPT !.last_indexed_at = t, !.vector_id = row.id]

\* a variant that selects on the vector reference alone
Eligible_AnyContent(rows) == {r \in rows : r.vector_id = NoId}

\* .is('vector_id', null).not('content', 'is', null)
Eligible(rows) == {r \in rows : r.vector_id = NoId /\ r.content # Null}

\* a set of rows as the sequence the store returns, here by url
RECURSIVE RowsInOrder(_)
RowsInOrder(rows) ==
    IF rows = {} THEN <<>>
    ELSE LET first == CHOOSE r \in rows : \A q \in rows : r.url <= q.url
         IN <<first>> \o RowsInOrder(rows \ {first})

\* a variant without the limit: every eligible row
Selections_Unlimited(rows, batch_size) == {Eligible(rows)}

\* .limit(batch_size): any batch_size of the eligible rows, all when fewer
Selections(rows, batch_size) ==
    {sel \in SUBSET Eligible(rows) :
        Cardinality(sel) = Min(Max(batch_size, 0), Cardinality(Eligible(rows)))}

\* Deno.env.get('QDRANT_API_KEY') and Deno.env.get('OPENAI_API_KEY')
AllSecrets == [QDRANT_API_KEY |-> TRUE, OPENAI_API_KEY |-> TRUE]
Environments == [QDRANT_API_KEY : BOOLEAN, OPENAI_API_KEY : BOOLEAN]

\* a variant that looks for the vector store's key only
CredentialsPresent_QdrantOnly(e) == e.QDRANT_API_KEY

\* if (!QDRANT_API_KEY) throw ...; if (!OPENAI_API_KEY) throw ...
CredentialsPresent(e) == e.QDRANT_API_KEY /\ e.OPENAI_API_KEY

\* Times are hours since the start of a year of twelve months, not a leap year.
HoursPerDay == 24
DaysPerYear == 365
DailyDays == 1
WeeklyDays == 7
RunHour == 2
MonthDays == <<31, 28, 31, 30, 31, 30, 31, 31, 30, 31, 30, 31>>

ScheduleNames ==
    {"daily-auto-vectorization", "weekly-auto-vectorization",
     "monthly-auto-vectorization"}

\* the month (1..12) of day d of the year, d counted from 0, from month m on
RECURSIVE MonthFrom(_, _)
MonthFrom(d, m) == IF d < MonthDays[m] THEN m ELSE MonthFrom(d - MonthDays[m], m + 1)

MonthOf(t) == MonthFrom((t \div HoursPerDay) % DaysPerYear, 1)

\* freq: by the name of the schedule found, weekly when none was found
FreqOf(sched) ==
    IF sched = Absent THEN "weekly"
    ELSE IF sched[1].schedule_name = "daily-auto-vectorization" THEN "daily"
    ELSE IF sched[1].schedule_name = "weekly-auto-vectorization" THEN "weekly"
    ELSE IF sched[1].schedule_name = "monthly-auto-vectorization" THEN "monthly"
    ELSE "weekly"

\* addPeriod: setDate(getDate() + 1), setDate(getDate() + 7) or
\* setMonth(getMonth() + 1); a day of the month the next month lacks runs
\* over into the month after, which is the length of this month later
AddPeriod(t, freq) ==
    IF freq = "daily" THEN t + DailyDays * HoursPerDay
    ELSE IF freq = "weekly" THEN t + WeeklyDays * HoursPerDay
    ELSE t + MonthDays[MonthOf(t)] * HoursPerDay

\* a variant of the loop that stops at the current time
RECURSIVE RollForward_UntilNow(_, _, _)
RollForward_UntilNow(nextRun, t, freq) ==
    IF nextRun < t THEN RollForward_UntilNow(AddPeriod(nextRun, freq), t, freq)
    ELSE nextRun

\* while (nextRun <= now) nextRun = addPeriod(nextRun)
RECURSIVE RollForward(_, _, _)
RollForward(nextRun, t, freq) ==
    IF nextRun <= t THEN RollForward(AddPeriod(nextRun, freq), t, freq)
    ELSE nextRun

\* the stored next_run_at, or 02:00 of today when none is stored, rolled
\* forward
NextRunAt(sched, t) ==
    LET stored == sched # Absent /\ sched[1].next_run_at # Null
        start == IF stored THEN sched[1].next_run_at
                 ELSE (t \div HoursPerDay) * HoursPerDay + RunHour
    IN RollForward(start, t, FreqOf(sched))

\* a variant that always reports the schedule idle
ScheduleStatus_AlwaysActive(remainingCount) == "active"

\* status: remainingCount && remainingCount > 0 ? 'running' : 'active'
ScheduleStatus(remainingCount) == IF remainingCount > 0 THEN "running" ELSE "active"

\* .in('schedule_name', [...]).order('updated_at', desc).limit(1).single():
\* the rows the query may return
ActiveSchedules(rows) ==
    {a \in rows :
        /\ a.schedule_name \in ScheduleNames
        /\ \A q \in rows : q.schedule_name \in ScheduleNames
                              => q.updated_at <= a.updated_at}

\* the schedule row after the tracking update of invocation r at time t
TrackedSchedule(row, r, t) ==
    [row EXCEPT !.last_run_at = t,
                !.articles_processed = r.processedCount,
                !.articles_failed = r.failedCount,
                !.status = ScheduleStatus(r.remainingCount),
                !.next_run_at = NextRunAt(Some(row), t),
                !.updated_at = t]

\* INSERT INTO vectorization_schedules (schedule_name, next_run_at, status)
ScheduleRow(id, name, next_run_at, created) ==
    [id |-> id, schedule_name |-> name, last_run_at |-> Null,
     next_run_at |-> next_run_at, articles_processed |-> 0,
     articles_failed |-> 0, status |-> "active", updated_at |-> created]

\* the row the migration seeds: weekly, next run on the Sunday at 02:00
SeededSchedules ==
    {ScheduleRow(1, "weekly-auto-vectorization", WeeklyDays * HoursPerDay + RunHour, 1)}

NewVecInv(bs, auto, force) ==
    [pc |-> "received",
     batch_size |-> IF bs = Absent THEN VecDefaultBatchSize ELSE bs[1],
     auto_scheduled |-> IF auto = Absent THEN FALSE ELSE auto[1],
     force_all |-> IF force = Absent THEN FALSE ELSE force[1],
     articles |-> <<>>, items |-> <<>>,
     processedCount |-> 0, failedCount |-> 0, remainingCount |-> 0,
     createdCollection |-> FALSE, selected |-> Absent,
     upsertOnMissing |-> FALSE, schedulePrev |-> Absent,
     child |-> 0, contIssued |-> 0,
     resp |-> NoResp]

VecIds == 1..Len(vinv)

\* what is left of a vectorize invocation once it has responded
VecResponded(r, resp) ==
    [pc |-> "done", batch_size |-> r.batch_size,
     auto_scheduled |-> r.auto_scheduled, force_all |-> r.force_all,
     articles |-> <<>>, items |-> <<>>,
     processedCount |-> 0, failedCount |-> 0, remainingCount |-> 0,
     createdCollection |-> r.createdCollection, selected |-> r.selected,
     upsertOnMissing |-> r.upsertOnMissing, schedulePrev |-> r.schedulePrev,
     child |-> 0, contIssued |-> r.contIssued,
     resp |-> resp]

\* what is left of a vectorize invocation the platform has ended
VecKilled(r) ==
    [VecResponded(r, NoResp) EXCEPT !.pc = "killed", !.articles = r.articles,
                                    !.items = r.items]

\* the catch: status 500, { success: false, error, stack }
VecErrorResponse == [status |-> 500, success |-> FALSE]

\* the early return when no article is selected
VecEmptyResponse ==
    [status |-> 200, success |-> TRUE, message |-> Some("No articles to vectorize"),
     processed |-> 0, failed |-> Absent, remaining |-> 0,
     isComplete |-> Absent, nextBatch |-> Absent]

\* the response after a batch: remaining: remainingCount || 0,
\* isComplete: !remainingCount || remainingCount === 0,
\* nextBatch: remainingCount && remainingCount > 0
VecResponse(r) ==
    [status |-> 200, success |-> TRUE, message |-> Absent,
     processed |-> r.processedCount, failed |-> Some(r.failedCount),
     remaining |-> r.remainingCount,
     isComplete |-> Some(r.remainingCount = 0),
     nextBatch |-> IF r.remainingCount = 0 THEN Some("0") ELSE Some("true")]

\* item j may run once every sub-batch before its own has been joined
VecSubBatchOpen(r, j) ==
    \A h \in 1..(((j - 1) \div vecProcessingBatchSize) * vecProcessingBatchSize) :
       r.items[h] \in {"done", "failed"}

VecAllJoined(r) == \A h \in 1..Len(r.items) : r.items[h] \in {"done", "failed"}

\* past the loop when the last promise has settled
VecAfterItem(r) == IF VecAllJoined(r) THEN [r EXCEPT !.pc = "recount"] ELSE r

\* a client, or the cron job, posts a request
VecRequest(bs, auto, force) ==
    /\ Len(vinv) < MaxVecInv
    /\ vinv' = Append(vinv, NewVecInv(bs, auto, force))
    /\ UNCHANGED <<kb_articles, now, qdrant>>

\* a secret is missing: the handler throws before any call, the catch
\* answers 500
VecConfigError(k) ==
    /\ vinv[k].pc = "received"
    /\ ~CredentialsPresent(env)
    /\ now' = now + 1
    /\ vinv' = [vinv EXCEPT ![k] = VecResponded(vinv[k], VecErrorResponse)]
    /\ UNCHANGED <<kb_articles, qdrant>>

\* GET /collections, and PUT /collections/knowledge_base when the list came
\* back and does not name it.  listed: the GET answered ok; created: the PUT
\* took effect (its answer is not looked at)
VecEnsureCollection(k, listed, created) ==
    /\ vinv[k].pc = "received"
    /\ CredentialsPresent(env)
    /\ now' = now + 1
    /\ LET create == listed /\ ~qdrant.collection
       IN /\ qdrant' = [qdrant EXCEPT !.collection = @ \/ (create /\ created)]
          /\ vinv' = [vinv EXCEPT ![k].pc = "select",
                                  ![k].createdCollection = create /\ created]
    /\ UNCHANGED kb_articles

\* the GET, or the PUT, throws: the handler's catch answers 500
VecCollectionThrows(k) ==
    /\ vinv[k].pc = "received"
    /\ CredentialsPresent(env)
    /\ now' = now + 1
    /\ vinv' = [vinv EXCEPT ![k] = VecResponded(vinv[k], VecErrorResponse)]
    /\ UNCHANGED <<kb_articles, qdrant>>

\* a variant in which force_all widens the selection to every article that
\* has content
VecSelect_ForceAll(k, sel) ==
    /\ vinv[k].pc = "select"
    /\ LET withContent == {row \in kb_articles : row.content # Null}
       IN sel \in IF vinv[k].force_all
                  THEN {some \in SUBSET withContent :
                           Cardinality(some) = Min(Max(vinv[k].batch_size, 0),
                                                   Cardinality(withContent))}
                  ELSE Selections(kb_articles, vinv[k].batch_size)
    /\ LET r == [vinv[k] EXCEPT !.articles = RowsInOrder(sel),
                                !.selected = Some(Cardinality(sel)),
                                !.items = [j \in 1..Cardinality(sel) |-> "todo"]]
       IN vinv' = [vinv EXCEPT ![k] =
             IF sel = {} THEN VecResponded(r, VecEmptyResponse)
             ELSE [r EXCEPT !.pc = "processing"]]
    /\ UNCHANGED <<kb_articles, now, qdrant>>

\* select the batch; with none selected, return at once
VecSelect(k, sel) ==
    /\ vinv[k].pc = "select"
    /\ sel \in Selections(kb_articles, vinv[k].batch_size)
    /\ LET r == [vinv[k] EXCEPT !.articles = RowsInOrder(sel),
                                !.selected = Some(Cardinality(sel)),
                                !.items = [j \in 1..Cardinality(sel) |-> "todo"]]
       IN vinv' = [vinv EXCEPT ![k] =
             IF sel = {} THEN VecResponded(r, VecEmptyResponse)
             ELSE [r EXCEPT !.pc = "processing"]]
    /\ UNCHANGED <<kb_articles, now, qdrant>>

\* a variant that does not look at the store's answer to the upsert
VecEmbedAndUpsert_Unchecked(k, j, out) ==
    /\ vinv[k].pc = "processing"
    /\ j \in 1..Len(vinv[k].items)
    /\ vinv[k].items[j] = "todo"
    /\ VecSubBatchOpen(vinv[k], j)
    /\ LET r == vinv[k]
           stored == out = "ok" /\ qdrant.collection
       IN /\ qdrant' = IF stored
                       THEN [qdrant EXCEPT
                               !.points = UpsertPoint(@, PointOf(r.articles[j]))]
                       ELSE qdrant
          /\ vinv' = [vinv EXCEPT ![k] =
                IF out # "embedding fails" THEN [r EXCEPT !.items[j] = "upserted"]
                ELSE VecAfterItem([r EXCEPT !.items[j] = "failed",
                                           !.failedCount = r.failedCount + 1])]
    /\ UNCHANGED <<kb_articles, now>>

\* one article: the embedding call, then the point upsert; a non-ok answer
\* of either throws into the per-article catch (failedCount++)
VecEmbedAndUpsert(k, j, out) ==
    /\ vinv[k].pc = "processing"
    /\ j \in 1..Len(vinv[k].items)
    /\ vinv[k].items[j] = "todo"
    /\ VecSubBatchOpen(vinv[k], j)
    /\ LET r == vinv[k]
           stored == out = "ok" /\ qdrant.collection
       IN /\ qdrant' = IF stored
                       THEN [qdrant EXCEPT
                               !.points = UpsertPoint(@, PointOf(r.articles[j]))]
                       ELSE qdrant
          /\ vinv' = [vinv EXCEPT ![k] =
                IF stored THEN [r EXCEPT !.items[j] = "upserted"]
                ELSE VecAfterItem([r EXCEPT
                        !.items[j] = "failed",
                        !.failedCount = r.failedCount + 1,
                        !.upsertOnMissing =
                            @ \/ (out # "embedding fails" /\ ~qdrant.collection)])]
    /\ UNCHANGED <<kb_articles, now>>

\* one article: the row update, then processedCount++
VecUpdateArticle(k, j) ==
    /\ vinv[k].pc = "processing"
    /\ j \in 1..Len(vinv[k].items)
    /\ vinv[k].items[j] = "upserted"
    /\ LET r == vinv[k]
       IN /\ kb_articles' = {IF row.id = r.articles[j].id
                             THEN IndexedRow(row, now) ELSE row :
                                row \in kb_articles}
          /\ vinv' = [vinv EXCEPT ![k] =
                VecAfterItem([r EXCEPT !.items[j] = "done",
                                       !.processedCount = r.processedCount + 1])]
    /\ UNCHANGED <<now, qdrant>>

\* count what is left
VecRecount(k) ==
    /\ vinv[k].pc = "recount"
    /\ vinv' = [vinv EXCEPT ![k].pc = IF vinv[k].auto_scheduled THEN "schedule"
                                      ELSE "finish",
                            ![k].remainingCount = Cardinality(Eligible(kb_articles))]
    /\ UNCHANGED <<kb_articles, now, qdrant>>

\* if (auto_scheduled): find the schedule last updated and write the run's
\* tracking data to it; with no schedule found the update matches no row
VecScheduleUpdate(k) ==
    /\ vinv[k].pc = "schedule"
    /\ IF ActiveSchedules(vectorization_schedules) = {}
       THEN /\ vinv' = [vinv EXCEPT ![k].pc = "finish"]
            /\ UNCHANGED vectorization_schedules
       ELSE \E a \in ActiveSchedules(vectorization_schedules) :
              /\ vectorization_schedules' =
                    (vectorization_schedules \ {a})
                       \cup {TrackedSchedule(a, vinv[k], now)}
              /\ vinv' = [vinv EXCEPT ![k].pc = "finish",
                                      ![k].schedulePrev = Some(a.next_run_at)]
    /\ UNCHANGED <<kb_articles, now, qdrant>>

\* nothing left: respond
VecRespond(k) ==
    /\ vinv[k].pc = "finish"
    /\ vinv[k].remainingCount = 0
    /\ vinv' = [vinv EXCEPT ![k] = VecResponded(vinv[k], VecResponse(vinv[k]))]
    /\ UNCHANGED <<kb_articles, now, qdrant>>

\* backlog left: post the continuation to the same endpoint and await the
\* fetch; the body carries batch_size and auto_scheduled
VecContinue(k) ==
    /\ vinv[k].pc = "finish"
    /\ vinv[k].remainingCount > 0
    /\ Len(vinv) < MaxVecInv
    /\ vinv' = Append([vinv EXCEPT ![k].pc = "awaiting",
                                   ![k].child = Len(vinv) + 1,
                                   ![k].contIssued = vinv[k].contIssued + 1],
                      NewVecInv(Some(vinv[k].batch_size),
                                Some(vinv[k].auto_scheduled), Absent))
    /\ UNCHANGED <<kb_articles, now, qdrant>>

\* the continuation request is never delivered: the fetch throws, the catch
\* logs it, the handler responds
VecContinueLost(k) ==
    /\ vinv[k].pc = "finish"
    /\ vinv[k].remainingCount > 0
    /\ vinv' = [vinv EXCEPT ![k] =
                  VecResponded([vinv[k] EXCEPT !.contIssued = vinv[k].contIssued + 1],
                               VecResponse(vinv[k]))]
    /\ UNCHANGED <<kb_articles, now, qdrant>>

\* the awaited fetch resolves with the continuation's response; respond
VecContinueResolved(k) ==
    /\ vinv[k].pc = "awaiting"
    /\ vinv[vinv[k].child].pc = "done"
    /\ vinv' = [vinv EXCEPT ![k] = VecResponded(vinv[k], VecResponse(vinv[k]))]
    /\ UNCHANGED <<kb_articles, now, qdrant>>

\* the awaited fetch fails while the continuation has not responded
VecContinueFailed(k) ==
    /\ vinv[k].pc = "awaiting"
    /\ vinv[vinv[k].child].pc # "done"
    /\ vinv' = [vinv EXCEPT ![k] = VecResponded(vinv[k], VecResponse(vinv[k]))]
    /\ UNCHANGED <<kb_articles, now, qdrant>>

\* the platform's wall-clock limit ends an invocation at a suspension point
VecKill(k) ==
    /\ vinv[k].pc \in {"select", "processing", "recount", "schedule", "finish",
                      "awaiting"}
    /\ vinv' = [vinv EXCEPT ![k] = VecKilled(vinv[k])]
    /\ UNCHANGED <<kb_articles, now, qdrant>>

----------------------------------------------------------------------------
(* The search service *)

DefaultLimit == 5
ScoreThreshold == 70     \* score_threshold: 0.7, scores in hundredths

\* similarity scores the store may compute for a point, in hundredths
Scores == {ScoreThreshold - 1, ScoreThreshold, ScoreThreshold + 1}

Queries == {Absent, Some(""), Some("a")}
Limits == {Absent, Some(1), Some(2)}

\* request bodies; NoBody is a request without a JSON body
NoBody == [json |-> FALSE, query |-> Absent, limit |-> Absent]
Bodies == {NoBody} \cup [json : {TRUE}, query : Queries, limit : Limits]

NoSearch ==
    [body |-> NoBody, status |-> 0, results |-> <<>>, total_found |-> Absent,
     embedCalls |-> 0, storeCalls |-> 0, hits |-> <<>>]

\* a variant that lets the empty string through
QueryMissing_AbsentOnly(body) == body.query = Absent

\* !query
QueryMissing(body) == body.query = Absent \/ body.query = Some("")

\* a variant that asks the store for hits of any score
SearchBody_NoThreshold(limit) ==
    [limit |-> limit, with_payload |-> TRUE, score_threshold |-> Absent]

\* the body of POST /collections/knowledge_base/points/search
SearchBody(limit) ==
    [limit |-> limit, with_payload |-> TRUE, score_threshold |-> Some(ScoreThreshold)]

\* the store's answer to a search: the points scoring at least the threshold
\* when one is given, best first, at most limit of them.  score maps a point
\* id to its similarity with the query vector
Qualifying(points, score, sbody) ==
    {p \in points : sbody.score_threshold = Absent
                    \/ score[p.id] >= sbody.score_threshold[1]}

StoreAnswers(points, score, sbody) ==
    LET q == Qualifying(points, score, sbody)
        n == Min(sbody.limit, Cardinality(q))
    IN {h \in [1..n -> q] :
          /\ \A a, b \in 1..n : a < b => score[h[a].id] >= score[h[b].id]
          /\ \A a, b \in 1..n : a # b => h[a] # h[b]
          /\ \A p \in q : (\A a \in 1..n : h[a] # p) =>
                             \A a \in 1..n : score[h[a].id] >= score[p.id]}

\* one hit of the store's answer
Hit(p, score) ==
    [id |-> p.id, score |-> score[p.id],
     payload |-> [title |-> p.title, content |-> p.content, url |-> p.url]]

\* content.substring(0, 200) + '...'
Preview(content) == <<content, "...">>

\* searchResults.result.map(...)
FormatResults(hits) ==
    [a \in 1..Len(hits) |->
       [id |-> hits[a].id, title |-> hits[a].payload.title,
        url |-> hits[a].payload.url,
        content_preview |-> Preview(hits[a].payload.content),
        similarity_score |-> hits[a].score]]

SearchAnswer(body, status, hits, embedCalls, storeCalls) ==
    [body |-> body, status |-> status,
     results |-> IF status = 200 THEN FormatResults(hits) ELSE <<>>,
     total_found |-> IF status = 200 THEN Some(Len(FormatResults(hits))) ELSE Absent,
     embedCalls |-> embedCalls, storeCalls |-> storeCalls, hits |-> hits]

\* a request without a JSON body: req.json() throws, the catch answers 500
SearchNoBody ==
    /\ search' = SearchAnswer(NoBody, 500, <<>>, 0, 0)
    /\ UNCHANGED <<scraping_jobs, kb_articles, now, inv, vecVars, web>>

\* a request whose query is missing or empty: 400
SearchBadRequest(body) ==
    /\ body.json
    /\ QueryMissing(body)
    /\ search' = SearchAnswer(body, 400, <<>>, 0, 0)
    /\ UNCHANGED <<scraping_jobs, kb_articles, now, inv, vecVars, web>>

\* the embedding call fails: getEmbedding throws, the catch answers 500
SearchEmbeddingFails(body) ==
    /\ body.json
    /\ ~QueryMissing(body)
    /\ search' = SearchAnswer(body, 500, <<>>, 1, 0)
    /\ UNCHANGED <<scraping_jobs, kb_articles, now, inv, vecVars, web>>

\* the store does not answer ok (no collection, or an outage): 500
SearchStoreFails(body) ==
    /\ body.json
    /\ ~QueryMissing(body)
    /\ search' = SearchAnswer(body, 500, <<>>, 1, 1)
    /\ UNCHANGED <<scraping_jobs, kb_articles, now, inv, vecVars, web>>

\* the whole exchange: embed the query, search the store, format its hits
SearchOk(body, score) ==
    /\ body.json
    /\ ~QueryMissing(body)
    /\ qdrant.collection
    /\ LET limit == IF body.limit = Absent THEN DefaultLimit ELSE body.limit[1]
       IN \E h \in StoreAnswers(qdrant.points, score, SearchBody(limit)) :
             search' = SearchAnswer(body, 200,
                                    [a \in 1..Len(h) |-> Hit(h[a], score)], 1, 1)
    /\ UNCHANGED <<scraping_jobs, kb_articles, now, inv, vecVars, web>>

----------------------------------------------------------------------------
(* Housekeeping: the corrective updates an operator runs on stuck jobs *)

\* a variant that closes the first stuck job only
HousekeepingBulk_FirstOnly ==
    /\ \E j \in JobIds : scraping_jobs[j].status = "running"
                          /\ scraping_jobs[j].completed_at = Null
    /\ LET first == CHOOSE j \in JobIds :
                       /\ scraping_jobs[j].status = "running"
                       /\ scraping_jobs[j].completed_at = Null
                       /\ \A h \in 1..(j - 1) :
                             ~(scraping_jobs[h].status = "running"
                               /\ scraping_jobs[h].completed_at = Null)
       IN scraping_jobs' = [scraping_jobs EXCEPT ![first].status = "completed",
                                                 ![first].completed_at = now,
                                                 ![first].error_message = Some("stuck")]
    /\ UNCHANGED <<kb_articles, now, inv>>

\* UPDATE scraping_jobs SET status = 'completed', completed_at = now(), ...
\* WHERE status = 'running' AND completed_at IS NULL
HousekeepingBulk ==
    /\ \E j \in JobIds : scraping_jobs[j].status = "running"
                          /\ scraping_jobs[j].completed_at = Null
    /\ scraping_jobs' =
          [j \in JobIds |->
             IF scraping_jobs[j].status = "running"
                /\ scraping_jobs[j].completed_at = Null
             THEN [scraping_jobs[j] EXCEPT !.status = "completed",
                                           !.completed_at = now,
                                           !.error_message = Some("stuck")]
             ELSE scraping_jobs[j]]
    /\ UNCHANGED <<kb_articles, now, inv>>

\* UPDATE scraping_jobs SET status = 'failed', error_message = ...,
\* completed_at = now() WHERE id = <j> AND status = 'running'
HousekeepingOne(j) ==
    /\ j \in JobIds
    /\ scraping_jobs[j].status = "running"
    /\ scraping_jobs' = [scraping_jobs EXCEPT ![j].status = "failed",
                                              ![j].completed_at = now,
                                              ![j].error_message = Some("timeout")]
    /\ UNCHANGED <<kb_articles, now, inv>>

----------------------------------------------------------------------------
(* Specifications *)

NoCollection == [collection |-> FALSE, points |-> {}]

Init ==
    /\ scraping_jobs = <<>>
    /\ kb_articles = {}
    /\ now = 1
    /\ inv = <<>>
    /\ qdrant = NoCollection
    /\ vinv = <<>>
    /\ search = NoSearch
    /\ vectorization_schedules = SeededSchedules
    /\ env = AllSecrets
    /\ web = NoWeb

\* no invocation is in flight
Idle == \A k \in InvIds : inv[k].pc \in {"done", "killed"}

\* the steps of the handler, with the lists a discovery may return and the
\* outcomes a page fetch may have
EngineSteps(lists, outs) ==
    \E k \in InvIds :
       \/ ScrapeCreateJob(k)
       \/ \E found \in lists :
             \/ ScrapeResume(k, found)
             \/ ScrapeDiscover(k, found)
       \/ \E j \in 1..processingBatchSize :
             \/ \E out \in outs : ScrapeFetch(k, j, out)
             \/ ScrapeWrite(k, j)
       \/ ScrapeCheckpoint(k)
       \/ ScrapeComplete(k)
       \/ ScrapeContinue(k)
       \/ ScrapeContinueLost(k)
       \/ ScrapeContinueResolved(k)
       \/ ScrapeContinueFailed(k)

\* The engine alone, one chain at a time: a client starts a new job when
\* nothing is in flight, and the engine continues it by calling itself.
NextChain ==
    /\ \/ \E bs \in BatchSizes : Idle /\ ScrapeRequest(Absent, bs)
       \/ EngineSteps(Discoveries(Site3), FetchOutcomes)
    /\ UNCHANGED <<vecVars, search, web>>

SpecChain == Init /\ [][NextChain]_vars

\* One chain at a time on a site whose pages always list the same links:
\* every discovery returns the same list in the same order.
NextStable ==
    /\ \/ \E bs \in BatchSizes : Idle /\ ScrapeRequest(Absent, bs)
       \/ EngineSteps({discoverArticleUrls(Site3, TRUE, [c \in {1} |-> TRUE])},
                      FetchOutcomes)
    /\ UNCHANGED <<vecVars, search, web>>

SpecStable == Init /\ [][NextStable]_vars

\* A slice of more than one sub-batch: a site of four articles, crawled the
\* same way on every call, a fetch either throwing or yielding a good page.
NextBatch ==
    /\ \/ \E bs \in LargeBatchSizes : Idle /\ ScrapeRequest(Absent, bs)
       \/ EngineSteps({discoverArticleUrls(Site4, TRUE, [c \in {1} |-> TRUE])},
                      {FetchThrows, GoodPage})
    /\ UNCHANGED <<vecVars, search, web>>

SpecBatch == Init /\ [][NextBatch]_vars

\* the list a crawl returns when every page of the site answers
FullList(site) == discoverArticleUrls(site, TRUE, [c \in 1..Len(site.cats) |-> TRUE])

\* a job of two urls that its invocation left running: ended by the
\* platform after discovery, or after a first url whose page had no title
LeftoverJob(p) ==
    [NewJobRow(1) EXCEPT !.total_urls = Len(FullList(Site2)), !.processed_urls = p]

InitOverlap ==
    /\ \E p \in {0, 1} : scraping_jobs = <<LeftoverJob(p)>>
    /\ kb_articles = {}
    /\ now = 2
    /\ inv = <<>>
    /\ qdrant = NoCollection
    /\ vinv = <<>>
    /\ search = NoSearch
    /\ vectorization_schedules = SeededSchedules
    /\ env = AllSecrets
    /\ web = NoWeb

\* Clients post new-job requests and resume requests for the job at any
\* time; invocations overlap.
NextOverlap ==
    /\ \/ \E bs \in SmallBatchSizes :
             \/ ScrapeRequest(Absent, bs)
             \/ ScrapeRequest(Some(1), bs)
       \/ EngineSteps({FullList(Site2)}, {FetchThrows, GoodPage})
    /\ UNCHANGED <<vecVars, search, web>>

SpecOverlap == InitOverlap /\ [][NextOverlap]_vars

\* a help center of four articles: the seed page links two of them (and an
\* article of another host), the first category page repeats one in the other
\* form and adds a third, the second repeats one and adds a fourth
SeedHrefs == << <<"relative", 1>>, <<"absolute", 2>>, <<"other", 5>> >>
CategoryHrefs ==
    << << <<"absolute", 1>>, <<"relative", 3>> >>,
       << <<"relative", 2>>, <<"relative", 4>> >> >>

\* the help center with any of its pages failing to answer
Webs ==
    [seed : {SeedHrefs}, cats : {CategoryHrefs}, seedOk : BOOLEAN,
     catOk : [1..Len(CategoryHrefs) -> BOOLEAN]]

InitDiscover ==
    /\ scraping_jobs = <<>>
    /\ kb_articles = {}
    /\ now = 1
    /\ inv = <<>>
    /\ qdrant = NoCollection
    /\ vinv = <<>>
    /\ search = NoSearch
    /\ vectorization_schedules = SeededSchedules
    /\ env = AllSecrets
    /\ web \in Webs

\* One chain at a time; every crawl meets the pages as they answer.
NextDiscover ==
    /\ \/ \E bs \in BatchSizes : Idle /\ ScrapeRequest(Absent, bs)
       \/ EngineSteps({Crawl(web)}, {FetchThrows, GoodPage})
    /\ UNCHANGED <<vecVars, search, web>>

SpecDiscover == InitDiscover /\ [][NextDiscover]_vars

\* the list a crawl returns on a help center with two articles more than the
\* cap on a slice, all linked once from the seed page
LongList == [a \in 1..(MaxBatchArticles + 2) |-> a]

\* no batch size, or one beyond the cap
CapBatchSizes == {Absent, Some(MaxBatchArticles + 10)}

\* One chain at a time on the long site; every page is good, except that the
\* fetch of the first url may throw.
NextCap ==
    /\ \/ \E bs \in CapBatchSizes : Idle /\ ScrapeRequest(Absent, bs)
       \/ EngineSteps({LongList}, {GoodPage})
       \/ \E k \in InvIds :
             /\ inv[k].startIndex + inv[k].i = 0
             /\ ScrapeFetch(k, 1, FetchThrows)
    /\ UNCHANGED <<vecVars, search, web>>

SpecCap == Init /\ [][NextCap]_vars

\* the resume_job_id a request may carry: none, a falsy one, the id of the
\* first job, an id no job has
ResumeIds == {Absent, Some(0), Some(1), Some(MaxInv + 1)}

\* Requests with and without a resume_job_id, one at a time.
NextResume ==
    /\ \/ \E rid \in ResumeIds, bs \in SmallBatchSizes :
             Idle /\ ScrapeRequest(rid, bs)
       \/ EngineSteps({FullList(Site2)}, {FetchThrows, GoodPage})
       \/ \E k \in InvIds : ScrapeResumeNotFound(k)
    /\ UNCHANGED <<vecVars, search, web>>

SpecResume == Init /\ [][NextResume]_vars

\* the batch_size a request body may carry: none, zero, one
AnyBatchSizes == {Absent, Some(0), Some(1)}

\* One chain at a time on a site that lists the same links on every call,
\* the client choosing the batch_size freely.
NextAnyBatch ==
    /\ \/ \E bs \in AnyBatchSizes : Idle /\ ScrapeRequest(Absent, bs)
       \/ EngineSteps({FullList(Site3)}, {FetchThrows, GoodPage})
    /\ UNCHANGED <<vecVars, search, web>>

SpecAnyBatch == Init /\ [][NextAnyBatch]_vars

\* One chain at a time, and the platform may end any invocation.
NextKill ==
    \/ NextChain
    \/ (\E k \in InvIds : ScrapeKill(k)) /\ UNCHANGED <<vecVars, search, web>>

SpecKill == Init /\ [][NextKill]_vars

\* Clients post new-job and resume requests at any time, invocations overlap,
\* the operator cleans up.  (An invocation the platform ends is one that takes
\* no further step: it adds no state of the tables.)
Next ==
    /\ \/ \E bs \in SmallBatchSizes : ScrapeRequest(Absent, bs)
       \/ \E bs \in SmallBatchSizes, j \in 1..(Len(scraping_jobs) + 1) :
             ScrapeRequest(Some(j), bs)
       \/ EngineSteps(Discoveries(Site2), {FetchThrows, GoodPage})
       \/ \E k \in InvIds : ScrapeResumeNotFound(k)
       \/ HousekeepingBulk
       \/ \E j \in JobIds : HousekeepingOne(j)
    /\ UNCHANGED <<vecVars, search, web>>

Spec == Init /\ [][Next]_vars

\* the table after a scrape that stored n articles at time 1
RECURSIVE ScrapedTable(_)
ScrapedTable(n) ==
    IF n = 0 THEN {}
    ELSE InsertArticle(ScrapedTable(n - 1),
                       [url |-> n, title |-> TitleOf(n), content |-> 1,
                        last_scraped_at |-> 1])

\* a row without content, which the column allows (content TEXT, nullable);
\* the scraper stores no such row
NoContentRow ==
    [id |-> <<0, 1>>, url |-> 0, title |-> TitleOf(0), content |-> Null,
     last_scraped_at |-> Null,
     vector_id |-> NoId, last_indexed_at |-> Null]

\* Vectorization starts on a table of scraped articles, none vectorized, with
\* or without a row that has no content, with or without the collection in
\* the vector store, and with or without each secret in the environment.
InitVec ==
    /\ scraping_jobs = <<>>
    /\ inv = <<>>
    /\ now = 1
    /\ \E n \in 0..MaxArticles, extra \in SUBSET {NoContentRow} :
          kb_articles = ScrapedTable(n) \cup extra
    /\ \E c \in BOOLEAN : qdrant = [collection |-> c, points |-> {}]
    /\ vinv = <<>>
    /\ search = NoSearch
    /\ vectorization_schedules = SeededSchedules
    /\ env \in Environments
    /\ web = NoWeb

VecIdle == \A k \in VecIds : vinv[k].pc \in {"done", "killed"}

\* the steps of invocation k that leave the schedule table alone
VecCore(k, outs) ==
    /\ \/ \E listed, created \in BOOLEAN : VecEnsureCollection(k, listed, created)
       \/ VecCollectionThrows(k)
       \/ \E sel \in SUBSET kb_articles : VecSelect(k, sel)
       \/ \E j \in 1..Cardinality(kb_articles) :
             \/ \E out \in outs : VecEmbedAndUpsert(k, j, out)
             \/ VecUpdateArticle(k, j)
       \/ VecRecount(k)
       \/ VecRespond(k)
       \/ VecContinue(k)
       \/ VecContinueLost(k)
       \/ VecContinueResolved(k)
       \/ VecContinueFailed(k)
    /\ UNCHANGED vectorization_schedules

VecSteps ==
    \E k \in VecIds :
       \/ VecCore(k, VecOutcomes)
       \/ VecConfigError(k) /\ UNCHANGED vectorization_schedules

\* The vectorization engine alone, one chain at a time: a request arrives
\* when nothing is in flight, and the engine continues by calling itself.
NextVec ==
    /\ \/ \E bs \in VecBatchSizes, force \in {Absent, Some(TRUE)} :
             VecIdle /\ VecRequest(bs, Absent, force)
                     /\ UNCHANGED vectorization_schedules
       \/ VecSteps
    /\ UNCHANGED <<scrapeVars, search, env, web>>

SpecVec == InitVec /\ [][NextVec]_vars

\* A backlog larger than a batch: two more articles than MaxArticles (or one
\* more), none vectorized, the collection in place.
BacklogSizes == {MaxArticles + 1, MaxArticles + 2}
BacklogBatchSizes == {Some(2), Some(vecProcessingBatchSize)}
BacklogOutcomes == {"upsert fails", "ok"}

InitBacklog ==
    /\ scraping_jobs = <<>>
    /\ inv = <<>>
    /\ now = 1
    /\ \E n \in BacklogSizes : kb_articles = ScrapedTable(n)
    /\ qdrant = [collection |-> TRUE, points |-> {}]
    /\ vinv = <<>>
    /\ search = NoSearch
    /\ vectorization_schedules = SeededSchedules
    /\ env = AllSecrets
    /\ web = NoWeb

NextBacklog ==
    /\ \/ \E bs \in BacklogBatchSizes :
             VecIdle /\ VecRequest(bs, Absent, Absent)
                     /\ UNCHANGED vectorization_schedules
       \/ \E k \in VecIds : VecCore(k, BacklogOutcomes)
    /\ UNCHANGED <<scrapeVars, search, env, web>>

SpecBacklog == InitBacklog /\ [][NextBacklog]_vars

\* The vectorization engine, one chain at a time, and the platform may end
\* any invocation at a suspension point.
NextVecKill ==
    \/ NextVec
    \/ /\ \E k \in VecIds : VecKill(k)
       /\ UNCHANGED <<vectorization_schedules, env, scrapeVars, search, web>>

SpecVecKill == InitVec /\ [][NextVecKill]_vars

\* Scheduled runs start on the last day of January, at midnight or an hour
\* into the day, so that a run falls before 02:00 or on it.
StartOfToday == 30 * HoursPerDay
StartTimes == {StartOfToday, StartOfToday + 1}

\* next_run_at of a schedule row: none, 02:00 on the first or on the day
\* before, 02:00 of today, or the day after tomorrow
NextRunChoices ==
    {Null, RunHour, StartOfToday - HoursPerDay + RunHour, StartOfToday + RunHour,
     StartOfToday + 2 * HoursPerDay}

\* the schedule table: empty, one row of any name, or the seeded weekly row
\* beside a daily row updated after it
ScheduleTables ==
    {{}}
    \cup {{ScheduleRow(1, name, t, 1)} : name \in ScheduleNames, t \in NextRunChoices}
    \cup {SeededSchedules \cup {ScheduleRow(2, "daily-auto-vectorization", Null, 2)}}

VecSchedOutcomes == {"embedding fails", "ok"}

InitSched ==
    /\ scraping_jobs = <<>>
    /\ inv = <<>>
    /\ now \in StartTimes
    /\ \E n \in 0..MaxArticles : kb_articles = ScrapedTable(n)
    /\ qdrant = [collection |-> TRUE, points |-> {}]
    /\ vinv = <<>>
    /\ search = NoSearch
    /\ vectorization_schedules \in ScheduleTables
    /\ env = AllSecrets
    /\ web = NoWeb

\* Runs started by the cron job (auto_scheduled) or by a client, one chain at
\* a time.
NextSched ==
    /\ \/ \E auto \in {Absent, Some(TRUE)} :
             VecIdle /\ VecRequest(Some(2), auto, Absent)
                     /\ UNCHANGED vectorization_schedules
       \/ \E k \in VecIds :
             \/ VecCore(k, VecSchedOutcomes)
             \/ VecScheduleUpdate(k)
    /\ UNCHANGED <<scrapeVars, search, env, web>>

SpecSched == InitSched /\ [][NextSched]_vars

\* the cron jobs of the migrations, each under the name of the schedule it
\* stands for: auto-vectorize-new-articles (Sundays at 02:00) and
\* vectorize-articles-daily-0200
CronJobs == {"weekly-auto-vectorization", "daily-auto-vectorization"}

\* body:='{"batch_size": 50, "auto_scheduled": true}'
CronBatchSize == 50

\* a cron job posts its request; which job posted it is kept beside the
\* invocation (trigger), the request itself does not carry it
CronRequest(job) ==
    /\ Len(vinv) < MaxVecInv
    /\ vinv' = Append(vinv, NewVecInv(Some(CronBatchSize), Some(TRUE), Absent)
                               @@ [trigger |-> job])
    /\ UNCHANGED <<kb_articles, now, qdrant>>

\* Runs started by the cron jobs, one chain at a time.
NextCron ==
    /\ \/ \E job \in CronJobs :
             VecIdle /\ CronRequest(job) /\ UNCHANGED vectorization_schedules
       \/ \E k \in VecIds :
             \/ VecCore(k, VecSchedOutcomes)
             \/ VecScheduleUpdate(k)
    /\ UNCHANGED <<scrapeVars, search, env, web>>

SpecCron == InitSched /\ [][NextCron]_vars

\* Overlapping runs: the cron job and clients post requests at any time, on a
\* table of scraped articles none of which is vectorized yet.
InitVecOverlap ==
    /\ scraping_jobs = <<>>
    /\ inv = <<>>
    /\ now = StartOfToday
    /\ kb_articles = ScrapedTable(MaxArticles - 1)
    /\ qdrant = [collection |-> TRUE, points |-> {}]
    /\ vinv = <<>>
    /\ search = NoSearch
    /\ vectorization_schedules = SeededSchedules
    /\ env = AllSecrets
    /\ web = NoWeb

NextVecOverlap ==
    /\ \/ \E auto \in {Absent, Some(TRUE)} :
             VecRequest(Some(2), auto, Absent) /\ UNCHANGED vectorization_schedules
       \/ \E k \in VecIds :
             \/ VecCore(k, BacklogOutcomes)
             \/ VecScheduleUpdate(k)
    /\ UNCHANGED <<scrapeVars, search, env, web>>

SpecVecOverlap == InitVecOverlap /\ [][NextVecOverlap]_vars

\* the table and the store after the articles of urls have been vectorized
\* at time 2, out of MaxArticles scraped ones
VectorizedTable(urls) ==
    {IF r.url \in urls THEN IndexedRow(r, 2) ELSE r : r \in ScrapedTable(MaxArticles)}

VectorizedStore(urls) ==
    [collection |-> TRUE,
     points |-> {PointOf(r) : r \in {x \in ScrapedTable(MaxArticles) : x.url \in urls}}]

\* Search runs against a store that vectorization has filled, or against a
\* store without the collection.
InitSearch ==
    /\ scraping_jobs = <<>>
    /\ inv = <<>>
    /\ now = 3
    /\ vinv = <<>>
    /\ search = NoSearch
    /\ vectorization_schedules = SeededSchedules
    /\ env = AllSecrets
    /\ web = NoWeb
    /\ \/ kb_articles = ScrapedTable(MaxArticles) /\ qdrant = NoCollection
       \/ \E urls \in SUBSET (1..MaxArticles) :
             /\ kb_articles = VectorizedTable(urls)
             /\ qdrant = VectorizedStore(urls)

\* A scrape of the site after vectorization: the table holds the site's
\* articles, some of them vectorized.
InitRescrape ==
    /\ scraping_jobs = <<>>
    /\ inv = <<>>
    /\ now = 3
    /\ vinv = <<>>
    /\ search = NoSearch
    /\ vectorization_schedules = SeededSchedules
    /\ env = AllSecrets
    /\ web = NoWeb
    /\ \E urls \in SUBSET (1..MaxArticles) :
          /\ kb_articles = VectorizedTable(urls)
          /\ qdrant = VectorizedStore(urls)

SpecRescrape == InitRescrape /\ [][NextStable]_vars

NextSearch ==
    \/ SearchNoBody
    \/ \E body \in Bodies :
          \/ SearchBadRequest(body)
          \/ SearchEmbeddingFails(body)
          \/ SearchStoreFails(body)
          \/ \E score \in [{p.id : p \in qdrant.points} -> Scores] :
                SearchOk(body, score)

SpecSearch == InitSearch /\ [][NextSearch]_vars

----------------------------------------------------------------------------
(* Claims about the scrape engine *)

Terminal == {"completed", "failed"}

\* C1: after every checkpoint write, the persisted processed-count plus
\* failed-count of a job is at most its total URL count, along a whole chain
\* of resumed invocations, failures included.
C1_CountsWithinTotal ==
    \A j \in JobIds :
       scraping_jobs[j].processed_urls + scraping_jobs[j].failed_urls
          <= scraping_jobs[j].total_urls

\* the step in which invocation k stores item j of its sub-batch
WriteStep(k, j) ==
    /\ inv[k].pc = "processing"
    /\ j <= Len(inv[k].items)
    /\ inv[k].items[j].st = "checked"
    /\ inv'[k].items[j].st = "done"

RowsOf(rows, url) == {r \in rows : r.url = url}

\* C4: scraping a url that already has a row (invocations one after the
\* other) leaves exactly one row of that url, carrying the content and the
\* last-scraped-at of this scrape; no row is added for a url that had one.
C4_UpsertIdempotent ==
    [][\A k \in InvIds, j \in 1..processingBatchSize :
          WriteStep(k, j) =>
             LET url == SubBatch(inv[k])[j]
             IN /\ Cardinality(RowsOf(kb_articles', url)) = 1
                /\ \A r \in RowsOf(kb_articles', url) :
                      /\ r.content = inv[k].items[j].content
                      /\ r.last_scraped_at = now
                /\ RowsOf(kb_articles, url) # {} =>
                      Cardinality(kb_articles') = Cardinality(kb_articles)]_vars

\* a second scrape of a url has gone through the update path
C4_SecondScrapeStored ==
    \E k \in InvIds :
       \E j \in 1..Len(inv[k].items) :
          /\ inv[k].items[j].stored
          /\ inv[k].items[j].existing # NoId
          /\ \E r \in kb_articles :
                /\ r.id = inv[k].items[j].existing
                /\ r.content = inv[k].items[j].content
                /\ r.last_scraped_at = now

\* C7: a job row that has reached completed or failed is never written back
\* to pending or running, and no row ever goes back to pending.
C7_StatusMonotonic ==
    [][\A j \in JobIds :
          /\ scraping_jobs'[j].status # "pending"
          /\ scraping_jobs[j].status \in Terminal
                => scraping_jobs'[j].status \in Terminal]_vars

\* an invocation has resumed a job that was terminal when it loaded it, and
\* has written a checkpoint to its row
C7_TerminalJobCheckpointed ==
    \E k \in InvIds :
       /\ inv[k].pc = "finish"
       /\ inv[k].jobStatus \in Terminal
       /\ inv[k].i > 0
       /\ scraping_jobs[inv[k].job].status \in Terminal

\* C8: an invocation that responds without error has either found
\* processed + failed >= total, marked the job completed with a completion
\* timestamp and issued no continuation, or left the job running and issued
\* exactly one continuation carrying the job's id; isComplete tells which, and
\* nextBatch is its negation.
C8_CompleteOrContinue ==
    [][\A k \in InvIds :
          /\ (inv[k].pc # "done" /\ inv'[k].pc = "done"
              /\ inv'[k].resp.status = 200) =>
                LET resp == inv'[k].resp
                IN /\ resp.isComplete =
                         (resp.processed + resp.failed >= resp.total)
                   /\ resp.nextBatch = ~resp.isComplete
                   /\ resp.jobId = inv[k].job
                   /\ resp.isComplete =>
                         /\ scraping_jobs'[inv[k].job].status = "completed"
                         /\ scraping_jobs'[inv[k].job].completed_at # Null
                         /\ inv'[k].contIssued = 0
                   /\ ~resp.isComplete => inv'[k].contIssued = 1
          /\ (inv[k].pc = "finish" /\ inv'[k].pc # "finish"
              /\ inv[k].processedCount + inv[k].failedCount
                    < Len(inv[k].discovered)) =>
                /\ scraping_jobs'[inv[k].job].status = "running"
                /\ scraping_jobs'[inv[k].job].completed_at = Null
                /\ inv'[k].contIssued = 1
                /\ inv'[k].pc = "awaiting" =>
                      /\ Len(inv') = Len(inv) + 1
                      /\ inv'[Len(inv')].resume_job_id = Some(inv[k].job)]_vars

\* both endings have happened: an invocation has responded incomplete after
\* one continuation, and the continuation has responded complete
C8_BothEndings ==
    \E k, c \in InvIds :
       /\ inv[k].pc = "done" /\ inv[k].resp.status = 200
       /\ ~inv[k].resp.isComplete /\ inv[k].contIssued = 1
       /\ inv[c].pc = "done" /\ inv[c].resp.status = 200
       /\ inv[c].resp.isComplete /\ inv[c].contIssued = 0
       /\ inv[c].resume_job_id = Some(inv[k].job)
       /\ scraping_jobs[inv[k].job].status = "completed"

\* C9: self-continuation is fire-and-forget: an invocation that has posted its
\* continuation can respond whether or not the continuation has finished.
C9_FireAndForget ==
    \A k \in InvIds :
       inv[k].pc = "awaiting" => ENABLED ScrapeContinueResolved(k)

\* C10: an invocation ended inside a sub-batch leaves no article upsert of
\* that sub-batch behind: the tables are as of the last checkpoint write.
C10_KillLeavesCheckpointState ==
    \A k \in InvIds :
       inv[k].pc = "killed" =>
          \A j \in 1..Len(inv[k].items) : ~inv[k].items[j].stored

\* C14: no step of the scrape engine changes the vector reference or the
\* last-indexed stamp of an article; the upsert of an article that has a row
\* keeps the row's id, vector reference and last-indexed stamp and leaves
\* every other row as it was.
C14_ScrapeKeepsVectorFields ==
    [][/\ \A r \in kb_articles :
             \E q \in kb_articles' :
                /\ q.id = r.id
                /\ q.vector_id = r.vector_id
                /\ q.last_indexed_at = r.last_indexed_at
       /\ \A k \in InvIds, j \in 1..processingBatchSize :
             (WriteStep(k, j) /\ RowsOf(kb_articles, SubBatch(inv[k])[j]) # {}) =>
                \A r \in kb_articles :
                   IF r.url = SubBatch(inv[k])[j]
                   THEN [r EXCEPT !.content = inv[k].items[j].content,
                                  !.last_scraped_at = now] \in kb_articles'
                   ELSE r \in kb_articles']_vars

\* a scrape has rewritten an article that is vectorized: new content, the
\* vector reference and the last-indexed stamp still there
C14_VectorizedArticleRescraped ==
    \E k \in InvIds :
       \E j \in 1..Len(inv[k].items) :
          /\ inv[k].items[j].stored
          /\ \E r \in kb_articles :
                /\ r.id = inv[k].items[j].existing
                /\ r.content = inv[k].items[j].content
                /\ r.last_scraped_at = now
                /\ r.vector_id = r.id
                /\ r.last_indexed_at = 2

\* the number of items of the sub-batch of r in state st
ItemsIn(r, st) == Cardinality({j \in 1..Len(r.items) : r.items[j].st = st})

\* C11: while a sub-batch is being processed, the job row holds the counts as
\* they were when the sub-batch began: the checkpoint of the sub-batch before
\* was written, with every item of it finished, before any item of this one
\* started.
C11_CheckpointBeforeNextSubBatch ==
    \A k \in InvIds :
       inv[k].pc = "processing" =>
          LET r == inv[k]
              row == scraping_jobs[r.job]
          IN /\ row.processed_urls = r.processedCount - ItemsIn(r, "done")
             /\ row.failed_urls = r.failedCount - ItemsIn(r, "failed")

\* an invocation is in its second sub-batch, an item of it has finished, and
\* the job row holds the counts of the first sub-batch, a failure among them
C11_SecondSubBatchUnderWay ==
    \E k \in InvIds :
       /\ inv[k].pc = "processing"
       /\ inv[k].i = processingBatchSize
       /\ inv[k].items[1].st \in {"done", "failed"}
       /\ scraping_jobs[inv[k].job].failed_urls >= 1
       /\ scraping_jobs[inv[k].job].processed_urls
             + scraping_jobs[inv[k].job].failed_urls = processingBatchSize

\* C12: an invocation leaves a sub-batch only by its checkpoint, with every
\* url of the sub-batch attempted; the checkpoint adds the number of failed
\* urls to the failed count and the size of the sub-batch to processed +
\* failed, and the loop ends only when the whole slice has been gone through.
C12_FailureDoesNotStopBatch ==
    [][\A k \in InvIds :
          (inv[k].pc = "processing" /\ inv'[k] # inv[k]
           /\ (inv'[k].pc # "processing" \/ inv'[k].i # inv[k].i)) =>
             LET r == inv[k]
                 row == scraping_jobs[r.job]
                 size == Min(processingBatchSize, Len(CurrentBatch(r)) - r.i)
             IN /\ inv'[k].pc \in {"processing", "finish"}
                /\ ItemsIn(r, "done") + ItemsIn(r, "failed") = size
                /\ scraping_jobs'[r.job].failed_urls
                      = row.failed_urls + ItemsIn(r, "failed")
                /\ scraping_jobs'[r.job].processed_urls
                      + scraping_jobs'[r.job].failed_urls
                      = row.processed_urls + row.failed_urls + size
                /\ inv'[k].pc = "finish" => r.i + size = Len(CurrentBatch(r))]_vars

\* an invocation has gone through a slice of two sub-batches in which the
\* first url failed and a later one was stored
C12_SliceDoneDespiteFailure ==
    \E k \in InvIds :
       /\ inv[k].pc = "finish"
       /\ inv[k].i > processingBatchSize
       /\ inv[k].failedCount >= 1
       /\ inv[k].processedCount >= 1
       /\ scraping_jobs[inv[k].job].processed_urls
             + scraping_jobs[inv[k].job].failed_urls = Len(CurrentBatch(inv[k]))

\* C22: a housekeeping update rewrites only rows that are running: such a row
\* becomes completed or failed, with a completion timestamp and an error
\* message, its counts and its start time as they were; every other row stays
\* as it was; and after the bulk form no row is running without a completion
\* timestamp.
C22_HousekeepingClosesRunningOnly ==
    [][(inv' = inv /\ scraping_jobs' # scraping_jobs) =>
          /\ Len(scraping_jobs') = Len(scraping_jobs)
          /\ \A j \in JobIds :
                scraping_jobs'[j] # scraping_jobs[j] =>
                   /\ scraping_jobs[j].status = "running"
                   /\ scraping_jobs'[j].status \in Terminal
                   /\ scraping_jobs'[j].completed_at = now
                   /\ scraping_jobs'[j].completed_at # Null
                   /\ scraping_jobs'[j].error_message # Absent
                   /\ scraping_jobs'[j] =
                         [scraping_jobs[j] EXCEPT
                             !.status = scraping_jobs'[j].status,
                             !.completed_at = scraping_jobs'[j].completed_at,
                             !.error_message = scraping_jobs'[j].error_message]
          /\ (\E j \in JobIds : /\ scraping_jobs'[j] # scraping_jobs[j]
                                 /\ scraping_jobs'[j].status = "completed") =>
                \A j \in JobIds : ~(/\ scraping_jobs'[j].status = "running"
                                    /\ scraping_jobs'[j].completed_at = Null)]_vars

\* two jobs were running, one of them with a url on record; the bulk update
\* has closed both and the counts are still there
C22_TwoStuckJobsClosed ==
    /\ Len(scraping_jobs) = 2
    /\ \A j \in JobIds :
          /\ scraping_jobs[j].status = "completed"
          /\ scraping_jobs[j].completed_at = now
          /\ scraping_jobs[j].error_message = Some("stuck")
    /\ \E j \in JobIds : scraping_jobs[j].processed_urls
                              + scraping_jobs[j].failed_urls >= 1

\* C23: an invocation answers 500 only as its first step, with the job table
\* and the article table as they were and no continuation posted; a request
\* whose resume_job_id is truthy (not undefined, null, the empty string or 0)
\* and is the id of no job is answered 500 in that way.
C23_ErrorResponseChangesNothing ==
    [][\A k \in InvIds :
          /\ (inv[k].pc # "done" /\ inv'[k].pc = "done"
              /\ inv'[k].resp.status = 500) =>
                /\ inv[k].pc = "received"
                /\ inv'[k].job = 0
                /\ inv'[k].contIssued = 0
                /\ Len(inv') = Len(inv)
                /\ UNCHANGED <<scraping_jobs, kb_articles>>
          /\ (/\ inv[k].pc = "received"
              /\ Truthy(inv[k].resume_job_id)
              /\ inv[k].resume_job_id[1] \notin JobIds
              /\ inv'[k] # inv[k]) =>
                /\ inv'[k].pc = "done"
                /\ inv'[k].resp.status = 500
                /\ UNCHANGED <<scraping_jobs, kb_articles>>]_vars

\* with a job in the table, a request naming another id has been answered
\* 500 and the table still holds that one job
C23_UnknownJobRefused ==
    \E k \in InvIds :
       /\ inv[k].pc = "done"
       /\ inv[k].resp.status = 500
       /\ inv[k].resume_job_id = Some(MaxInv + 1)
       /\ inv[k].job = 0
       /\ Len(scraping_jobs) = 1

\* C23 as stated: an invocation whose resume_job_id is the id of no job has
\* created no job and, once it has responded, has answered 500.
C23_UnmatchedResumeFails ==
    \A k \in InvIds :
       (inv[k].resume_job_id # Absent /\ inv[k].resume_job_id[1] \notin JobIds) =>
          /\ inv[k].job = 0
          /\ inv[k].pc = "done" => inv[k].resp.status = 500

\* the articles of the help center that a page's hrefs point to
LinkedFrom(hrefs) ==
    {hrefs[a][2] : a \in {b \in 1..Len(hrefs) : hrefs[b][1] # "other"}}

\* C24: the list a crawl hands to the invocation has no url twice and holds
\* exactly the article links of the seed page and of the category pages that
\* answered (none at all when the seed page did not answer); a new job gets
\* the length of that list as its total and the invocation starts on the
\* list's first urls.
C24_PartialDiscovery ==
    [][\A k \in InvIds :
          (/\ inv[k].pc \in {"received", "discovering"}
           /\ inv'[k].pc \in {"processing", "finish"}) =>
             LET d == inv'[k].discovered
                 answered == {c \in 1..Len(web.cats) : web.catOk[c]}
             IN /\ \A a, b \in 1..Len(d) : a # b => d[a] # d[b]
                /\ {d[a] : a \in 1..Len(d)} =
                      IF web.seedOk
                      THEN LinkedFrom(web.seed)
                              \cup UNION {LinkedFrom(web.cats[c]) : c \in answered}
                      ELSE {}
                /\ inv[k].pc = "discovering" =>
                      /\ scraping_jobs'[inv[k].job].total_urls = Len(d)
                      /\ d # <<>> =>
                            /\ inv'[k].pc = "processing"
                            /\ SubBatch(inv'[k])[1] = d[1]]_vars

\* the first category page did not answer: a new job runs on the three urls
\* of the seed page and the second category page
C24_OneCategoryMissing ==
    \E k \in InvIds :
       /\ web.seedOk /\ ~web.catOk[1] /\ web.catOk[2]
       /\ inv[k].pc = "processing"
       /\ inv[k].resume_job_id = Absent
       /\ inv[k].discovered = <<1, 2, 4>>
       /\ scraping_jobs[inv[k].job].total_urls = 3
       /\ inv[k].items[1].st = "done"

SliceWithinCap(r) ==
    LET cap == Min(r.batch_size, MaxBatchArticles)
        d == r.discovered
    IN /\ r.pc = "processing" =>
             /\ r.i + Len(r.items) <= cap
             /\ Len(r.items) >= 1
             /\ \A j \in 1..Len(r.items) :
                   /\ r.startIndex + r.i + j <= Len(d)
                   /\ SubBatch(r)[j] = d[r.startIndex + r.i + j]
       /\ r.pc = "finish" =>
             /\ r.i >= Min(cap, Max(Len(d) - r.startIndex, 0))
             /\ r.i < Min(cap, Max(Len(d) - r.startIndex, 0)) + processingBatchSize

\* C27: an invocation attempts at most min(batch_size, 50) urls, batch_size
\* being 20 when the request has none; they are the urls of the discovered
\* list from the job's stored processed-count on, without a gap.
C27_SliceCappedAndContiguous ==
    [][\A k \in InvIds :
          /\ k \in 1..Len(inv') => SliceWithinCap(inv'[k])
          /\ (/\ inv[k].pc \in {"received", "discovering"}
              /\ inv'[k].pc \in {"processing", "finish"}) =>
                inv'[k].startIndex = scraping_jobs'[inv'[k].job].processed_urls
          /\ inv[k].pc = "received" =>
                inv[k].batch_size \in {DefaultBatchSize, MaxBatchArticles + 10}]_vars

\* on a list of 52 urls, a request with a batch size of 60 has gone through
\* the first 50, the first fetch failing, and its continuation has gone
\* through the rest from the stored processed-count, 49, on
C27_CappedAtFifty ==
    \E k \in InvIds :
       /\ inv[k].pc = "awaiting"
       /\ inv[k].batch_size = MaxBatchArticles + 10
       /\ inv[k].startIndex = 0
       /\ inv[k].processedCount + inv[k].failedCount = MaxBatchArticles
       /\ inv[k].failedCount = 1
       /\ Len(inv[k].discovered) = MaxBatchArticles + 2
       /\ inv[inv[k].child].pc = "finish"
       /\ inv[inv[k].child].startIndex = MaxBatchArticles - 1
       /\ CurrentBatch(inv[inv[k].child])
             = <<MaxBatchArticles, MaxBatchArticles + 1, MaxBatchArticles + 2>>

\* C21: nothing keeps two invocations from working on one job at a time: a
\* resume request for a job is taken up whatever else is in flight, it starts
\* from the counts the row holds at that moment, and a checkpoint writes the
\* invocation's own counts over whatever the row holds.
C21_ResumeNotExcluded ==
    [][\A k \in InvIds :
          /\ (/\ inv[k].pc = "received"
              /\ Truthy(inv[k].resume_job_id)
              /\ inv[k].resume_job_id[1] \in JobIds) =>
                LET row == scraping_jobs[inv[k].resume_job_id[1]]
                IN /\ ENABLED ScrapeResume(k, FullList(Site2))
                   /\ inv'[k] # inv[k] =>
                         /\ inv'[k].startIndex = row.processed_urls
                         /\ inv'[k].processedCount = row.processed_urls
                         /\ inv'[k].failedCount = row.failed_urls
          /\ (/\ inv[k].pc = "processing"
              /\ inv'[k].i = inv[k].i + processingBatchSize) =>
                /\ scraping_jobs'[inv[k].job].processed_urls = inv[k].processedCount
                /\ scraping_jobs'[inv[k].job].failed_urls = inv[k].failedCount]_vars

\* two invocations resumed the job from the same count and went through the
\* same slice; the first url failed in one and was stored by the other; both
\* wrote their checkpoint, and the row holds the counts of the second alone:
\* two attempts made, one on record
C21_CheckpointOverwritten ==
    \E a, b \in InvIds :
       /\ a # b
       /\ inv[a].pc = "finish" /\ inv[b].pc = "finish"
       /\ Truthy(inv[a].resume_job_id) /\ Truthy(inv[b].resume_job_id)
       /\ inv[a].job = inv[b].job
       /\ inv[a].startIndex = inv[b].startIndex
       /\ CurrentBatch(inv[a]) = CurrentBatch(inv[b])
       /\ Len(CurrentBatch(inv[a])) = 2
       /\ inv[a].failedCount = 1
       /\ inv[b].failedCount = 0
       /\ scraping_jobs[inv[a].job].processed_urls = inv[b].processedCount
       /\ scraping_jobs[inv[a].job].failed_urls = 0
       /\ scraping_jobs[inv[a].job].processed_urls
             = inv[a].startIndex + Len(CurrentBatch(inv[a]))

\* the urls invocation record r has attempted (scraped or failed): the
\* sub-batches it has gone through and the items of the current sub-batch it
\* has fetched; an invocation past its loop has attempted its whole slice
AttemptedBy(r) ==
    IF r.pc \in {"finish", "awaiting"}
    THEN {CurrentBatch(r)[a] : a \in 1..Len(CurrentBatch(r))}
    ELSE IF r.pc = "processing"
    THEN {CurrentBatch(r)[a] : a \in 1..r.i}
            \cup {SubBatch(r)[j] : j \in {j \in 1..Len(r.items) :
                                             r.items[j].st # "todo"}}
    ELSE {}

\* the invocations of job j that have loaded the job
ChainOf(j) == {m \in InvIds : inv[m].job = j /\ inv[m].pc \notin {"received"}}

\* every invocation of job j is still there with its slice: each awaits its
\* continuation but the last one
WholeChain(j) ==
    \A m \in ChainOf(j) : inv[m].pc \in {"processing", "finish", "awaiting"}

\* C29: in the step in which an invocation marks its job completed, every
\* url of the discovered list has been attempted by some invocation of the
\* job's chain, whatever the batch size and whichever fetches failed.
C29_CompletedMeansAllAttempted ==
    [][\A k \in InvIds :
          ( /\ inv[k].pc = "finish"
            /\ scraping_jobs[inv[k].job].status = "running"
            /\ scraping_jobs'[inv[k].job].status = "completed"
            /\ inv'[k].pc = "done"
            /\ WholeChain(inv[k].job) )
          => \A a \in 1..Len(inv[k].discovered) :
                \E m \in ChainOf(inv[k].job) :
                   inv[k].discovered[a] \in AttemptedBy(inv[m])]_vars

\* C30: along a chain with a stable discovery, no url is attempted by two
\* invocations of the same job, and the counts an invocation holds past its
\* loop are the number of distinct urls the chain has attempted so far.
C30_ResumeSkipsAttempted ==
    \A j \in JobIds :
       WholeChain(j) =>
          /\ \A m, k \in ChainOf(j) :
                m # k => AttemptedBy(inv[m]) \cap AttemptedBy(inv[k]) = {}
          /\ \A k \in ChainOf(j) :
                inv[k].pc = "finish" =>
                   inv[k].processedCount + inv[k].failedCount
                      = Cardinality(UNION {AttemptedBy(inv[m]) : m \in ChainOf(j)})

\* C31: a job row that has a terminal status keeps its status, its processed
\* and failed counts and its completion timestamp in every later step, whether
\* the step is taken by a continuation in flight or by a resume of that job; a
\* failed job never becomes completed.
C31_TerminalRowsFrozen ==
    [][\A j \in JobIds :
          scraping_jobs[j].status \in Terminal =>
             /\ scraping_jobs'[j].status = scraping_jobs[j].status
             /\ scraping_jobs'[j].processed_urls = scraping_jobs[j].processed_urls
             /\ scraping_jobs'[j].failed_urls = scraping_jobs[j].failed_urls
             /\ scraping_jobs'[j].completed_at = scraping_jobs[j].completed_at]_vars

\* C32: a chain of continuations ends with its job completed whatever the
\* batch_size of the request and whichever fetches fail: an invocation that
\* posts a continuation has attempted at least one url, so processed + failed
\* has grown by the time the continuation loads the job.
C32_ContinuationMeansProgress ==
    [][\A k \in InvIds :
          (inv[k].pc = "finish" /\ inv'[k].pc = "awaiting")
          => Len(CurrentBatch(inv[k])) > 0]_vars

\* C35: a url is counted as processed only when the article table holds a row
\* of that url: in the step in which an invocation counts a url of its
\* sub-batch, a row with that url is in the table.
C35_ProcessedHasRow ==
    [][\A k \in InvIds, j \in 1..processingBatchSize :
          ( /\ inv[k].pc = "processing"
            /\ j <= Len(inv[k].items)
            /\ inv[k].items[j].st # "done"
            /\ inv'[k].pc = "processing"
            /\ inv'[k].items[j].st = "done"
            /\ inv'[k].processedCount = inv[k].processedCount + 1 )
          => \E row \in kb_articles' : row.url = SubBatch(inv[k])[j]]_vars

\* C36: the article table never holds two rows of one url, also when two
\* invocations scrape the same url at once and each finds no row before it
\* inserts.
C36_OneRowPerUrl ==
    \A r1, r2 \in kb_articles : r1.url = r2.url => r1 = r2

\* two invocations have each looked up the same url, found no row, and gone
\* through their insert; the table holds the row of that url
C36_BothInsertedSameUrl ==
    \E k1, k2 \in InvIds :
       /\ k1 # k2
       /\ inv[k1].pc = "processing" /\ inv[k2].pc = "processing"
       /\ \E j1 \in 1..Len(inv[k1].items), j2 \in 1..Len(inv[k2].items) :
             /\ SubBatch(inv[k1])[j1] = SubBatch(inv[k2])[j2]
             /\ inv[k1].items[j1].st = "done" /\ inv[k2].items[j2].st = "done"
             /\ inv[k1].items[j1].existing = NoId /\ inv[k1].items[j1].stored
             /\ inv[k2].items[j2].existing = NoId /\ inv[k2].items[j2].stored
             /\ UrlTaken(kb_articles, SubBatch(inv[k1])[j1])

----------------------------------------------------------------------------
(* Claims about the vectorization engine *)

\* the row of the article an invocation selected as its j-th
RowOfSelected(r, j) == CHOOSE row \in kb_articles : row.id = r.articles[j].id

C3_EmptyBacklogNoEffect ==
    \A k \in VecIds :
       (vinv[k].pc = "done" /\ vinv[k].selected = Some(0)) =>
          /\ vinv[k].resp.processed = 0
          /\ vinv[k].resp.remaining = 0
          /\ vinv[k].resp.isComplete = Some(TRUE)
          /\ ~vinv[k].createdCollection
          /\ vinv[k].contIssued = 0

\* C13: a run selects at most batch_size articles, each with content and
\* without a vector reference, and no article without content ever has a
\* vector reference or a point in the vector store.
C13_NoContentNeverVectorized ==
    /\ \A row \in kb_articles :
          row.content = Null =>
             /\ row.vector_id = NoId
             /\ \A p \in qdrant.points : p.id # row.id
    /\ \A k \in VecIds :
          /\ vinv[k].selected # Absent => vinv[k].selected[1] <= vinv[k].batch_size
          /\ Len(vinv[k].articles) <= vinv[k].batch_size
          /\ \A j \in 1..Len(vinv[k].articles) :
                /\ vinv[k].articles[j].content # Null
                /\ vinv[k].articles[j].vector_id = NoId

\* on a table of three articles and a row without content, a run with
\* batch_size 2 has selected two articles and indexed both
C13_BatchBesideNoContentRow ==
    \E k \in VecIds :
       /\ vinv[k].pc = "recount"
       /\ NoContentRow \in kb_articles
       /\ Cardinality(kb_articles) = MaxArticles + 1
       /\ vinv[k].batch_size = 2
       /\ Len(vinv[k].articles) = 2
       /\ vinv[k].processedCount = 2

\* C15: the continuation an invocation posts carries its own batch_size,
\* auto_scheduled and force_all.
C15_ContinuationSameParameters ==
    \A k \in VecIds :
       vinv[k].pc = "awaiting" =>
          /\ vinv[vinv[k].child].batch_size = vinv[k].batch_size
          /\ vinv[vinv[k].child].auto_scheduled = vinv[k].auto_scheduled
          /\ vinv[vinv[k].child].force_all = vinv[k].force_all

\* C16: with a secret missing, the first step of a run is its response:
\* status 500 and success false, with no selection made, no collection
\* created, nothing written to the article table, the vector store or the
\* schedule table, and no continuation posted.
C16_MissingSecretAborts ==
    [][\A k \in VecIds :
          (/\ vinv[k].pc = "received"
           /\ ~(env.QDRANT_API_KEY /\ env.OPENAI_API_KEY)
           /\ vinv'[k] # vinv[k]) =>
             /\ vinv'[k].pc = "done"
             /\ vinv'[k].resp.status = 500
             /\ vinv'[k].resp.success = FALSE
             /\ vinv'[k].selected = Absent
             /\ ~vinv'[k].createdCollection
             /\ vinv'[k].schedulePrev = Absent
             /\ vinv'[k].contIssued = 0
             /\ Len(vinv') = Len(vinv)
             /\ UNCHANGED <<kb_articles, qdrant, vectorization_schedules>>]_vars

\* a run has been refused for want of the embedding provider's key alone,
\* with articles waiting and no collection in the vector store
C16_RefusedWithBacklog ==
    \E k \in VecIds :
       /\ vinv[k].pc = "done"
       /\ vinv[k].resp.status = 500
       /\ env.QDRANT_API_KEY /\ ~env.OPENAI_API_KEY
       /\ Eligible(kb_articles) # {}
       /\ ~qdrant.collection

\* the schedule rows a step rewrites, each with what it becomes
RewrittenSchedules ==
    {pair \in vectorization_schedules \X vectorization_schedules' :
        pair[1].id = pair[2].id /\ pair[1] # pair[2]}

\* the time n periods after t
RECURSIVE PeriodsAfter(_, _, _)
PeriodsAfter(t, n, freq) ==
    IF n = 0 THEN t ELSE AddPeriod(PeriodsAfter(t, n - 1, freq), freq)

C18_ScheduledRunTracked ==
    \A k \in VecIds :
       (/\ vinv[k].pc = "done"
        /\ vinv[k].auto_scheduled
        /\ vinv[k].resp.status = 200
        /\ ActiveSchedules(vectorization_schedules) # {}) =>
          vinv[k].schedulePrev # Absent

\* C19: the schedule table changes only in the tracking step of a run started
\* with auto_scheduled; the row written holds the run's processed and failed
\* counts, the time of the update as last_run_at, and the status running when
\* articles remain eligible, active when none does.
C19_ScheduleTracksRun ==
    [][vectorization_schedules' # vectorization_schedules =>
          \E k \in VecIds :
             /\ vinv[k].auto_scheduled
             /\ vinv[k].pc = "schedule"
             /\ vinv'[k].pc = "finish"
             /\ Cardinality(RewrittenSchedules) = 1
             /\ \A pair \in RewrittenSchedules :
                   /\ pair[2].articles_processed = vinv[k].processedCount
                   /\ pair[2].articles_failed = vinv[k].failedCount
                   /\ pair[2].last_run_at = now
                   /\ pair[2].status =
                         IF Cardinality(Eligible(kb_articles)) > 0
                         THEN "running" ELSE "active"]_vars

\* a schedule row shows a run, made at this hour, that indexed one article,
\* failed on another and left a backlog
C19_RunningWithCounts ==
    \E row \in vectorization_schedules :
       /\ row.last_run_at = now
       /\ row.status = "running"
       /\ row.articles_processed = 1
       /\ row.articles_failed = 1

\* C20: no run attempts a point upsert while the collection does not exist.
C20_NoUpsertWithoutCollection ==
    \A k \in VecIds : ~vinv[k].upsertOnMissing

\* the articles that were eligible when invocation r made its selection: the
\* ones still eligible and the ones it selected
BacklogAtSelection(r) ==
    Eligible(kb_articles)
       \cup {row \in kb_articles :
                \E j \in 1..Len(r.articles) : r.articles[j].id = row.id}

\* C26: a run with batch size b that met n > b eligible articles and failed
\* on none has processed b of them and counted n - b remaining; it posts one
\* continuation, with the same batch size, and answers processed = b,
\* remaining = n - b, isComplete false, nextBatch true.
C26_BatchThenContinuation ==
    [][\A k \in VecIds :
          LET r == vinv[k]
              n == Cardinality(BacklogAtSelection(r))
              b == r.batch_size
          IN /\ (r.pc = "finish" /\ r.failedCount = 0 /\ n > b) =>
                   /\ r.processedCount = b
                   /\ r.remainingCount = n - b
                   /\ vinv'[k] # r =>
                         /\ vinv'[k].contIssued = 1
                         /\ vinv'[k].pc = "awaiting" =>
                               /\ Len(vinv') = Len(vinv) + 1
                               /\ vinv'[Len(vinv')].pc = "received"
                               /\ vinv'[Len(vinv')].batch_size = b
                         /\ vinv'[k].pc # "awaiting" => Len(vinv') = Len(vinv)
             /\ (/\ r.pc \in {"finish", "awaiting"}
                 /\ vinv'[k].pc = "done"
                 /\ r.failedCount = 0
                 /\ r.remainingCount > 0) =>
                   /\ vinv'[k].resp.status = 200
                   /\ vinv'[k].resp.processed = r.processedCount
                   /\ vinv'[k].resp.failed = Some(0)
                   /\ vinv'[k].resp.remaining = r.remainingCount
                   /\ vinv'[k].resp.isComplete = Some(FALSE)
                   /\ vinv'[k].resp.nextBatch = Some("true")
                   /\ vinv'[k].contIssued = 1]_vars

\* with five articles waiting, a run with batch size 2 has answered
\* processed 2, remaining 3, not complete, after one continuation
C26_TwoOfFive ==
    \E k \in VecIds :
       /\ Cardinality(kb_articles) = 5
       /\ vinv[k].pc = "done"
       /\ vinv[k].batch_size = 2
       /\ vinv[k].resp.status = 200
       /\ vinv[k].resp.processed = 2
       /\ vinv[k].resp.failed = Some(0)
       /\ vinv[k].resp.remaining = 3
       /\ vinv[k].resp.isComplete = Some(FALSE)
       /\ vinv[k].contIssued = 1

\* C33: a run posts a continuation exactly when its recount finds a backlog,
\* and a run that posts one has vectorized at least one article, so that the
\* backlog shrinks along the chain and the chain ends, also when an article
\* fails every time.
C33_VecContinuationMeansProgress ==
    [][\A k \in VecIds :
          (vinv[k].pc = "finish" /\ vinv'[k] # vinv[k]) =>
             /\ vinv'[k].contIssued = vinv[k].contIssued + 1
                   <=> vinv[k].remainingCount > 0
             /\ vinv'[k].pc = "awaiting" =>
                   vinv[k].remainingCount
                      < Cardinality(BacklogAtSelection(vinv[k]))]_vars

\* C34: in every state, a run ended at any point included, every article
\* whose vector reference is set has a point in the store under its id, and
\* the reference is that id.
C34_ReferenceImpliesPoint ==
    \A row \in kb_articles :
       row.vector_id # NoId =>
          /\ row.vector_id = row.id
          /\ \E p \in qdrant.points : p.id = row.id

\* a run was ended between the upsert of one article and the update of its
\* row, after another article had been vectorized
C34_KilledBetweenUpsertAndUpdate ==
    \E k \in VecIds :
       /\ vinv[k].pc = "killed"
       /\ \E j \in 1..Len(vinv[k].items) : vinv[k].items[j] = "upserted"
       /\ \E row \in kb_articles : row.vector_id # NoId

\* C37: the vector store never holds two points of one article, also when
\* two runs overlap and vectorize the same article: each point is the point
\* of the article whose id it carries, and a set vector reference is the
\* article's id.
C37_OnePointPerArticle ==
    /\ \A p, q \in qdrant.points : (p.id = q.id \/ p.url = q.url) => p = q
    /\ \A p \in qdrant.points :
          \E row \in kb_articles : row.id = p.id /\ row.url = p.url
    /\ \A row \in kb_articles : row.vector_id \in {NoId, row.id}

\* a scheduled run and a manual run, both still under way, have each
\* vectorized the same article
C37_SameArticleTwice ==
    \E k1, k2 \in VecIds :
       /\ vinv[k1].auto_scheduled /\ ~vinv[k2].auto_scheduled
       /\ \E j1 \in 1..Len(vinv[k1].items), j2 \in 1..Len(vinv[k2].items) :
             /\ vinv[k1].articles[j1].id = vinv[k2].articles[j2].id
             /\ vinv[k1].items[j1] = "done" /\ vinv[k2].items[j2] = "done"
             /\ \E row \in kb_articles :
                   /\ row.id = vinv[k1].articles[j1].id
                   /\ row.vector_id = row.id

\* C38: the tracking update of a run a cron job started changes at most one
\* schedule row, the row of the schedule whose cron job started the run, and
\* leaves every other schedule row as it was.
C38_OnlyTriggeringScheduleUpdated ==
    [][\A k \in VecIds :
          ( /\ vinv[k].pc = "schedule"
            /\ vinv'[k].pc = "finish"
            /\ "trigger" \in DOMAIN vinv[k] )
          => /\ Cardinality(vectorization_schedules \ vectorization_schedules') <= 1
             /\ \A row \in vectorization_schedules :
                   row.schedule_name # vinv[k].trigger
                      => row \in vectorization_schedules']_vars

\* the articles vectorized, and failed, by the invocations 1..n still at work
RECURSIVE ChainProcessed(_)
ChainProcessed(n) ==
    IF n = 0 THEN 0 ELSE vinv[n].processedCount + ChainProcessed(n - 1)

RECURSIVE ChainFailed(_)
ChainFailed(n) ==
    IF n = 0 THEN 0 ELSE vinv[n].failedCount + ChainFailed(n - 1)

\* C39: when the last run of a scheduled chain has found the backlog empty
\* and written the schedule row, the row's articles_processed and
\* articles_failed are the totals of the chain: the counts of that run and of
\* every run before it that awaits it.
C39_ScheduleHoldsChainTotals ==
    \A k \in VecIds :
       ( /\ vinv[k].pc = "finish"
         /\ vinv[k].auto_scheduled
         /\ vinv[k].remainingCount = 0
         /\ vinv[k].schedulePrev # Absent
         /\ \A m \in VecIds \ {k} : vinv[m].pc = "awaiting" )
       => \A row \in ActiveSchedules(vectorization_schedules) :
             /\ row.articles_processed = ChainProcessed(Len(vinv))
             /\ row.articles_failed = ChainFailed(Len(vinv))

----------------------------------------------------------------------------
(* Claims about the search service *)

ResultFields ==
    {"id", "title", "url", "category", "content_preview", "similarity_score",
     "created_at", "updated_at"}

\* C28: every result of a successful search has the fields id, title, url,
\* category, content_preview, similarity_score, created_at and updated_at,
\* the id and the score being the hit's and the others coming from the hit's
\* payload; and a search over points the vectorization engine wrote is
\* answered with each hit formatted.
C28_ResultsCarryPayloadFields ==
    search.status = 200 =>
       /\ Len(search.results) = Len(search.hits)
       /\ \A a \in 1..Len(search.results) :
             LET res == search.results[a]
                 hit == search.hits[a]
             IN /\ res.id = hit.id
                /\ res.similarity_score = hit.score
                /\ res.title = hit.payload.title
                /\ res.url = hit.payload.url
                /\ res.content_preview = Preview(hit.payload.content)
                /\ \E p \in qdrant.points : p.id = hit.id /\ PointOf(p) = p
                /\ ResultFields \subseteq DOMAIN res
                /\ ResultFields \ {"id", "similarity_score"} \subseteq DOMAIN hit.payload

C6_ResultsAreStoreHits ==
    search.status = 200 =>
       LET res == search.results
       IN /\ \A a \in 1..Len(res) : res[a].similarity_score >= ScoreThreshold
          /\ \A a, b \in 1..Len(res) :
                a < b => res[a].similarity_score >= res[b].similarity_score
          /\ Len(res) = Len(search.hits)
          /\ \A a \in 1..Len(res) :
                /\ res[a].id = search.hits[a].id
                /\ res[a].similarity_score = search.hits[a].score
          /\ search.total_found = Some(Len(res))

\* a search over three points has returned two of them, the better first,
\* with room for more in its limit: the third scored below the threshold
C6_FilteredAndOrdered ==
    /\ search.status = 200
    /\ search.body.limit = Absent
    /\ Cardinality(qdrant.points) = MaxArticles
    /\ Len(search.results) = 2
    /\ search.results[1].similarity_score > search.results[2].similarity_score

====
